---- MODULE Spec2Model ----
(***************************************************************************)
(* The domain-term substitution engine of app/terms_store.py: the          *)
(* persistent TermsStore (entry list, derived indexes, history, on-disk    *)
(* document), its mutation API and its replacement pipeline.               *)
(*                                                                         *)
(* Spec follows whole calls on one store; SpecReplace a replace call on a  *)
(* loaded glossary; SpecCrash a write of the file step by step in a        *)
(* process that may die; SpecConc threads calling one store, statement by  *)
(* statement; SpecLev one call of _levenshtein_limited; SpecCeiling a      *)
(* store whose file grows to the ceiling of the fuzzy pass; SpecLoad a     *)
(* store whose file comes to hold rows that do not validate; SpecHistory   *)
(* a store whose history is full; SpecNorm normalize_text of               *)
(* app/textnorm.py on the text of a segment; SpecApply apply_terms of      *)
(* app/textnorm.py on a transcript; SpecSession replace calls between the  *)
(* mutations of a glossary; SpecConcFair the threads of SpecConc under a   *)
(* scheduler that lets a thread that can take a step take it.  fs is       *)
(* followed in SpecCrash only, thr and conc in SpecConc and SpecConcFair,  *)
(* lev in SpecLev, norm in SpecNorm, appl in SpecApply.                    *)
(*                                                                         *)
(* Strings are sequences of characters; a character is a one-symbol atom.  *)
(* Characters outside ASCII carry an ASCII name ("s_cedilla" is U+015F).   *)
(***************************************************************************)
EXTENDS Integers, Sequences, FiniteSets, TLC

VARIABLES
    data,             \* self._data["entries"]: the entry list, in insertion order
    ordered_entries,  \* self._ordered_entries
    exact_index,      \* self._exact_index: first char -> length -> entries
    accent_index,     \* self._accent_index: id -> folded src
    fuzzy_exact,      \* self._fuzzy_exact_entries
    fuzzy_enabled,    \* self._fuzzy_enabled
    compiled_exact,   \* self._compiled_exact: (id, case_sensitive) -> pattern
    compiled_regex,   \* self._compiled_regex
    history,          \* self._history, newest first
    disk,             \* the file at self.path
    last,             \* the call that ended last: its name, arguments and outcome
    nextId,           \* how many uuid4() values have been drawn
    ops,              \* how many calls have ended
    foreign,          \* another process has written the file
    rep,              \* the replace call that ended last: arguments and outcome
    fs,               \* the files at self.path and at tmp_path, and the position
                      \* of the process inside _atomic_write
    thr,              \* the threads: the call each makes and how far it has got
    conc,             \* self._lock, and the store as the last release left it
    lev,              \* the call of _levenshtein_limited: arguments and value
    norm,             \* a text on its way through normalize_text
    appl              \* the apply_terms call that ended last: settings and outcome

storeVars == <<data, ordered_entries, exact_index, accent_index, fuzzy_exact,
               fuzzy_enabled, compiled_exact, compiled_regex, history, disk>>

\* what the mutation API leaves alone
auxVars == <<rep, fs, thr, conc, lev, norm, appl>>

----------------------------------------------------------------------------
(* Bounds of the model *)

\* max_entries the store is constructed with (settings.terms_max_entries)
MaxEntries == 2
\* number of store calls in one behaviour
MaxOps == 3

(* Program constants *)
MaxFieldLen == 512
FuzzyThreshold == 512
HistoryMaxLen == 200
DefaultPriority == 100

----------------------------------------------------------------------------
(* Characters and strings *)

s_cedilla == "s_cedilla"
\* U+0130, capital I with dot above, and U+0307, the combining dot above
I_dot == "I_dot"
dot_above == "dot_above"

\* \w of a re.UNICODE pattern, on the characters used here
IsWord(c) == c \in {"a", "b", "c", "i", "s", "A", s_cedilla, I_dot}

IsSpace(c) == c = " "

\* Unicode code points, for str comparison
CodePoint(c) ==
    CASE c = " " -> 32
      [] c = "(" -> 40
      [] c = "." -> 46
      [] c = "A" -> 65
      [] c = "a" -> 97
      [] c = "b" -> 98
      [] c = "c" -> 99
      [] c = "i" -> 105
      [] c = "s" -> 115
      [] c = s_cedilla -> 351
      [] c = I_dot -> 304
      [] c = dot_above -> 775
      [] OTHER -> 0

\* str.lower() of one character: a string, of two characters for U+0130
LowerChar(c) ==
    IF c = "A" THEN <<"a">> ELSE IF c = I_dot THEN <<"i", dot_above>> ELSE <<c>>

\* str.lower()
RECURSIVE Lower(_)
Lower(s) == IF s = <<>> THEN <<>> ELSE LowerChar(Head(s)) \o Lower(Tail(s))

\* the characters a re.IGNORECASE pattern takes for the same
CaseFold(c) == IF c = "A" THEN "a" ELSE IF c = I_dot THEN "i" ELSE c

\* ACCENT_MAP, on the characters used here
AccentChar(c) == IF c = s_cedilla THEN "s" ELSE IF c = I_dot THEN "i" ELSE c

_strip_accents(value) == [i \in 1..Len(value) |-> AccentChar(value[i])]

RECURSIVE LStrip(_)
LStrip(s) == IF s # <<>> /\ IsSpace(Head(s)) THEN LStrip(Tail(s)) ELSE s

RECURSIVE RStrip(_)
RStrip(s) ==
    IF s # <<>> /\ IsSpace(s[Len(s)]) THEN RStrip(SubSeq(s, 1, Len(s) - 1)) ELSE s

\* str.strip()
Strip(s) == RStrip(LStrip(s))

\* a < b for str: lexicographic by code point, a proper prefix first
RECURSIVE StrLess(_, _)
StrLess(a, b) ==
    IF b = <<>> THEN FALSE
    ELSE IF a = <<>> THEN TRUE
    ELSE IF CodePoint(Head(a)) # CodePoint(Head(b))
         THEN CodePoint(Head(a)) < CodePoint(Head(b))
    ELSE StrLess(Tail(a), Tail(b))

\* F applied to the value of e, which is evaluated once
Eval(e, F(_)) == CHOOSE y \in {F(x) : x \in {e}} : TRUE

----------------------------------------------------------------------------
(* Payloads and entries *)

AllKeys == {"id", "src", "dst", "type", "priority", "notes", "active"}

\* An untyped payload dict: keys holds the keys that are present; the field of
\* an absent key is never read.  priority is IntOf(n), or a value int() cannot
\* coerce; active is the repr of the raw value.
IntOf(n) == [t |-> "int", n |-> n]
BadInt == [t |-> "str", n |-> 0]

Payload(keys, id, src, dst, type, priority, notes, active) ==
    [keys |-> keys, id |-> id, src |-> src, dst |-> dst, type |-> type,
     priority |-> priority, notes |-> notes, active |-> active]

\* TermEntry.to_dict()
Entry(id, src, dst, type, priority, notes, active) ==
    [id |-> id, src |-> src, dst |-> dst, type |-> type, priority |-> priority,
     notes |-> notes, active |-> active]

NoEntry == Entry("", <<>>, <<>>, "", 0, <<>>, FALSE)

\* an entry dict read as a payload (every key present); also what json.load
\* gives back for a dumped entry
EntryToJson(e) ==
    Payload(AllKeys, e.id, e.src, e.dst, e.type, IntOf(e.priority), e.notes,
            IF e.active THEN "True" ELSE "False")

\* re.compile(src, re.UNICODE) succeeds: of the patterns used here, the ones
\* without an unbalanced parenthesis
Compiles(src) == \A i \in 1..Len(src) : src[i] # "("

\* a type that is not a string: the JSON number 5, which has no lower()
NonStrType == "<5>"

\* str.lower() of the payload's type
LowerType(t) == IF t = "EXACT" THEN "exact" ELSE IF t = "REGEX" THEN "regex" ELSE t

\* bool(value): of the raw values used here only these are falsy.  A raw
\* value is written as repr() writes it, a string with its quotes ("'off'"),
\* and every string that is not empty is truthy.
ActiveOf(raw) == raw \notin {"False", "0", "", "None"}

\* the codes of TermsValidationError that _validate_payload raises
ValidationErrors == {"INVALID_TERM", "BAD_REGEX"}

Raised(err, drew) == [ok |-> FALSE, err |-> err, entry |-> NoEntry, drew |-> drew]

\* TermsStore._validate_payload; fresh is the value str(uuid.uuid4()) has if drawn
_validate_payload(payload, existing_id, fresh) ==
    LET has(k) == k \in payload.keys
        src == IF has("src") THEN Strip(payload.src) ELSE <<>>
        dst == IF has("dst") THEN Strip(payload.dst) ELSE <<>>
        notes == IF has("notes") THEN Strip(payload.notes) ELSE <<>>
        entry_type == LowerType(IF has("type") /\ payload.type # ""
                                THEN payload.type ELSE "exact")
        given == IF existing_id # "" THEN existing_id
                 ELSE IF has("id") THEN payload.id ELSE ""
        drew == given = ""
        entry_id == IF drew THEN fresh ELSE given
        priority == IF has("priority") THEN payload.priority.n ELSE DefaultPriority
        active == IF has("active") THEN ActiveOf(payload.active) ELSE TRUE
    IN  IF src = <<>> \/ dst = <<>> THEN Raised("INVALID_TERM", FALSE)
        ELSE IF Len(src) > MaxFieldLen \/ Len(dst) > MaxFieldLen
             THEN Raised("INVALID_TERM", FALSE)
        ELSE IF has("type") /\ payload.type = NonStrType
             THEN Raised("AttributeError", FALSE)
        ELSE IF entry_type \notin {"exact", "regex"} THEN Raised("INVALID_TERM", FALSE)
        ELSE IF has("priority") /\ payload.priority.t # "int"
             THEN Raised("ValueError", FALSE)
        ELSE IF entry_type = "regex" /\ ~Compiles(src) THEN Raised("BAD_REGEX", drew)
        ELSE [ok |-> TRUE, err |-> "",
              entry |-> Entry(entry_id, src, dst, entry_type, priority, notes, active),
              drew |-> drew]

\* the n-th value uuid4() returns: distinct from each other and from every
\* id a payload carries
FreshId(n) == "u" \o ToString(n)

----------------------------------------------------------------------------
(* The store as a value: one field per attribute of TermsStore, and the file *)

Store(d, o, x, a, f, fe, ce, cr, h, dk) ==
    [data |-> d, ordered_entries |-> o, exact_index |-> x, accent_index |-> a,
     fuzzy_exact |-> f, fuzzy_enabled |-> fe, compiled_exact |-> ce,
     compiled_regex |-> cr, history |-> h, disk |-> dk]

Self == Store(data, ordered_entries, exact_index, accent_index, fuzzy_exact,
              fuzzy_enabled, compiled_exact, compiled_regex, history, disk)

\* the file's content: a JSON document, text json.load rejects, or no file
Doc(entries) == [kind |-> "doc", entries |-> entries]
Malformed == [kind |-> "malformed", entries |-> <<>>]
NoFile == [kind |-> "missing", entries |-> <<>>]

\* a sort by ascending priority, which _rebuild_indexes does not do
KeyLess_PriorityAscending(a, b) == a.priority < b.priority

\* the sort key of _rebuild_indexes compares a before b
KeyLess(a, b) ==
    LET ra == IF a.type = "exact" THEN 0 ELSE 1
        rb == IF b.type = "exact" THEN 0 ELSE 1
    IN  \/ a.priority > b.priority
        \/ a.priority = b.priority /\ ra < rb
        \/ a.priority = b.priority /\ ra = rb /\ StrLess(a.src, b.src)

\* list.sort is stable: e goes after every element that does not compare after it
InsertSorted(e, sorted) ==
    LET n == Cardinality({i \in 1..Len(sorted) : ~KeyLess(e, sorted[i])})
    IN  SubSeq(sorted, 1, n) \o <<e>> \o SubSeq(sorted, n + 1, Len(sorted))

RECURSIVE SortEntries(_)
SortEntries(entries) ==
    IF entries = <<>> THEN <<>>
    ELSE InsertSorted(entries[Len(entries)],
                      SortEntries(SubSeq(entries, 1, Len(entries) - 1)))

\* the bucket key of an exact entry: _strip_accents(src[:1].lower())
FirstCharKey(src) == _strip_accents(Lower(SubSeq(src, 1, 1)))

\* the indexes _rebuild_indexes derives from the sorted entries
IndexesOf(st, entries) ==
    LET exact == SelectSeq(entries, LAMBDA e : e.type = "exact")
        chars == {FirstCharKey(exact[i].src) : i \in 1..Len(exact)}
        lens(c) == {Len(exact[i].src) :
                        i \in {j \in 1..Len(exact) : FirstCharKey(exact[j].src) = c}}
        ids == {entries[i].id : i \in 1..Len(entries)}
        lastOf(id) == CHOOSE i \in 1..Len(entries) :
                          /\ entries[i].id = id
                          /\ \A j \in (i + 1)..Len(entries) : entries[j].id # id
    IN  [st EXCEPT
            !.ordered_entries = entries,
            !.exact_index =
                [c \in chars |->
                    [l \in lens(c) |->
                        SelectSeq(exact, LAMBDA e : FirstCharKey(e.src) = c
                                                     /\ Len(e.src) = l)]],
            !.accent_index =
                [id \in ids |-> _strip_accents(Lower(entries[lastOf(id)].src))],
            !.compiled_exact = {},
            !.compiled_regex = {},
            !.fuzzy_exact = SelectSeq(exact, LAMBDA e : e.active),
            !.fuzzy_enabled = Len(entries) <= FuzzyThreshold]

\* a _rebuild_indexes that leaves the compiled patterns in the caches
_rebuild_indexes_KeepsCompiled(st) ==
    Eval(SortEntries(
            [i \in 1..Len(st.data) |->
                _validate_payload(EntryToJson(st.data[i]), st.data[i].id, "").entry]),
         LAMBDA entries :
            [IndexesOf(st, entries) EXCEPT !.compiled_exact = st.compiled_exact,
                                           !.compiled_regex = st.compiled_regex])

\* TermsStore._rebuild_indexes
_rebuild_indexes(st) ==
    Eval(SortEntries(
            [i \in 1..Len(st.data) |->
                _validate_payload(EntryToJson(st.data[i]), st.data[i].id, "").entry]),
         LAMBDA entries : IndexesOf(st, entries))

\* a history record; the fields an action does not set stay empty
HistoryRecord(action, id, src, n1, n2) ==
    [action |-> action, id |-> id, src |-> src, n1 |-> n1, n2 |-> n2]

\* (mutant) a full history gives up the record it got last, not its oldest
_record_history_EvictsNewest(st, rec) ==
    [st EXCEPT !.history =
        IF Len(st.history) < HistoryMaxLen THEN <<rec>> \o st.history
        ELSE <<rec>> \o SubSeq(st.history, 2, HistoryMaxLen)]

\* TermsStore._record_history: appendleft on a deque(maxlen=200)
_record_history(st, rec) ==
    LET h == <<rec>> \o st.history
    IN  [st EXCEPT !.history = SubSeq(h, 1, IF Len(h) > HistoryMaxLen
                                            THEN HistoryMaxLen ELSE Len(h))]

\* TermsStore._ensure_limit raises TERMS_LIMIT
LimitExceeded(new_count) == new_count > MaxEntries

\* json.dump of {"entries": [...]}
DumpEntries(entries) == Doc([i \in 1..Len(entries) |-> EntryToJson(entries[i])])

\* (mutant) the temporary file is written and never renamed over the path
_atomic_write_NoRename(st, document) == st

\* TermsStore._atomic_write, run to its end
_atomic_write(st, document) == [st EXCEPT !.disk = document]

Ok(st) == [st |-> st, res |-> "ok"]
Raise(st, err) == [st |-> st, res |-> err]

\* (mutant) save writes the file and leaves no record in the history
save_NoRecord(st) ==
    IF LimitExceeded(Len(st.data)) THEN Raise(st, "TERMS_LIMIT")
    ELSE Ok(_atomic_write(st, DumpEntries(st.data)))

\* TermsStore.save
save(st) ==
    IF LimitExceeded(Len(st.data)) THEN Raise(st, "TERMS_LIMIT")
    ELSE Ok(_record_history(_atomic_write(st, DumpEntries(st.data)),
                            HistoryRecord("save", "", <<>>, Len(st.data), 0)))

\* TermsStore._entry_index: the first position holding the id, 0 for -1
_entry_index(st, entry_id) ==
    LET hits == {i \in 1..Len(st.data) : st.data[i].id = entry_id}
    IN  IF hits = {} THEN 0 ELSE CHOOSE i \in hits : \A j \in hits : i <= j

\* a key that keeps the accents
_normalize_src_KeepsAccents(src) == Lower(Strip(src))

\* TermsStore._normalize_src
_normalize_src(src) == _strip_accents(Lower(Strip(src)))

\* One iteration of the validation loop of load; acc is [validated, nid, err].
\* The loop skips a row that raises TermsValidationError; any other exception
\* leaves the loop, and err keeps it.
LoadStep(raw, acc) ==
    IF acc.err # "" THEN acc
    ELSE Eval(_validate_payload(raw, IF "id" \in raw.keys THEN raw.id ELSE "",
                                FreshId(acc.nid + 1)),
              LAMBDA v :
                [validated |-> IF v.ok THEN Append(acc.validated, v.entry)
                               ELSE acc.validated,
                 nid |-> IF v.drew THEN acc.nid + 1 ELSE acc.nid,
                 err |-> IF v.ok \/ v.err \in ValidationErrors THEN "" ELSE v.err])

\* the loop of load over raws[lo..hi], in order; it is cut in halves so that
\* a document of hundreds of entries is walked without deep nesting
RECURSIVE LoadRange(_, _, _, _)
LoadRange(raws, lo, hi, acc) ==
    IF lo > hi THEN acc
    ELSE IF lo = hi THEN Eval(acc, LAMBDA a : LoadStep(raws[lo], a))
    ELSE Eval(LoadRange(raws, lo, (lo + hi) \div 2, acc),
              LAMBDA left : LoadRange(raws, (lo + hi) \div 2 + 1, hi, left))

LoadLoop(raws, i, acc) == LoadRange(raws, i, Len(raws), acc)

\* load, from the point where self._data["entries"] is set to the validated list;
\* when the loop was left by an exception self._data is still what json.load
\* returned, the rows of the document as they are
LoadFinish(st, loop) ==
    IF loop.err # ""
    THEN [st |-> [st EXCEPT !.data = st.disk.entries], res |-> loop.err,
          nid |-> loop.nid]
    ELSE IF LimitExceeded(Len(loop.validated))
    THEN [st |-> [st EXCEPT !.data = loop.validated], res |-> "TERMS_LIMIT",
          nid |-> loop.nid]
    ELSE [st |-> _rebuild_indexes([st EXCEPT !.data = loop.validated]),
          res |-> "ok", nid |-> loop.nid]

\* (mutant) a file that is not JSON leaves the store as it is
load_KeepsMalformed(st, nid) ==
    IF st.disk.kind = "malformed" THEN [st |-> st, res |-> "ok", nid |-> nid]
    ELSE Eval(IF st.disk.kind = "missing" THEN _atomic_write(st, Doc(<<>>)) ELSE st,
              LAMBDA st1 :
                Eval(LoadLoop(IF st1.disk.kind = "doc" THEN st1.disk.entries ELSE <<>>,
                              1, [validated |-> <<>>, nid |-> nid, err |-> ""]),
                     LAMBDA loop : LoadFinish(st1, loop)))

\* TermsStore.load (and reload); nid counts the uuid4() values drawn so far
load(st, nid) ==
    Eval(IF st.disk.kind = "missing" THEN _atomic_write(st, Doc(<<>>)) ELSE st,
         LAMBDA st1 :
            Eval(LoadLoop(IF st1.disk.kind = "doc" THEN st1.disk.entries ELSE <<>>,
                          1, [validated |-> <<>>, nid |-> nid, err |-> ""]),
                 LAMBDA loop : LoadFinish(st1, loop)))

\* what a call returns: the store it leaves, its outcome, the uuid4() count
Result(r, nid) == [st |-> r.st, res |-> r.res, nid |-> nid]

\* an item of self._data["entries"] as a JSON object: after a load that an
\* exception ended the items are the rows of the document, otherwise entries
AsJson(item) == IF "keys" \in DOMAIN item THEN item ELSE EntryToJson(item)

\* the exception _rebuild_indexes raises, that of the first item which
\* _validate_payload rejects; "" when it rejects none
RebuildError(st) ==
    LET check(i) == _validate_payload(AsJson(st.data[i]),
                                      AsJson(st.data[i]).id, "")
        bad == {i \in 1..Len(st.data) : ~check(i).ok}
    IN  IF bad = {} THEN ""
        ELSE check(CHOOSE i \in bad : \A j \in bad : i <= j).err

\* the end of every mutating call: self._rebuild_indexes(); self.save()
RebuildAndSave(st, nid) ==
    Eval(RebuildError(st),
         LAMBDA err :
            IF err # "" THEN [st |-> st, res |-> err, nid |-> nid]
            ELSE Eval(save(_rebuild_indexes(st)), LAMBDA r : Result(r, nid)))

\* (mutant) the entry is appended before the ceiling is checked
AddLocked_AppendFirst(st, entry, nid) ==
    IF LimitExceeded(Len(st.data) + 1)
    THEN [st |-> [st EXCEPT !.data = Append(st.data, entry)], res |-> "TERMS_LIMIT",
          nid |-> nid]
    ELSE RebuildAndSave(
            _record_history([st EXCEPT !.data = Append(st.data, entry)],
                            HistoryRecord("add", entry.id, entry.src, 0, 0)),
            nid)

\* add_entry: the append and its history record
AddAppend(st, entry) ==
    _record_history([st EXCEPT !.data = Append(st.data, entry)],
                    HistoryRecord("add", entry.id, entry.src, 0, 0))

\* add_entry, inside the lock, with the validated entry
AddLocked(st, entry, nid) ==
    IF LimitExceeded(Len(st.data) + 1)
    THEN [st |-> st, res |-> "TERMS_LIMIT", nid |-> nid]
    ELSE RebuildAndSave(AddAppend(st, entry), nid)

\* TermsStore.add_entry
add_entry(st, payload, nid) ==
    Eval(_validate_payload(payload, "", FreshId(nid + 1)),
         LAMBDA v :
            IF ~v.ok THEN [st |-> st, res |-> v.err,
                           nid |-> IF v.drew THEN nid + 1 ELSE nid]
            ELSE AddLocked(st, v.entry, IF v.drew THEN nid + 1 ELSE nid))

\* merged = deepcopy(entry); merged.update(payload)
Merged(entry, payload) ==
    LET pick(k, new, old) == IF k \in payload.keys THEN new ELSE old
    IN  Payload(AllKeys,
                pick("id", payload.id, entry.id),
                pick("src", payload.src, entry.src),
                pick("dst", payload.dst, entry.dst),
                pick("type", payload.type, entry.type),
                pick("priority", payload.priority, IntOf(entry.priority)),
                pick("notes", payload.notes, entry.notes),
                pick("active", payload.active,
                     IF entry.active THEN "True" ELSE "False"))

\* an update that takes the entry out of the list and appends the new one
UpdateAssign_MovesToEnd(st, idx, entry) ==
    _record_history([st EXCEPT !.data = Append(SubSeq(st.data, 1, idx - 1)
                                                  \o SubSeq(st.data, idx + 1,
                                                            Len(st.data)),
                                               entry)],
                    HistoryRecord("update", entry.id, entry.src, 0, 0))

\* update_entry: the assignment and its history record
UpdateAssign(st, idx, entry) ==
    _record_history([st EXCEPT !.data[idx] = entry],
                    HistoryRecord("update", entry.id, entry.src, 0, 0))

\* update_entry, from the validation of the merged payload on
UpdateAt(st, idx, entry_id, payload, nid) ==
    Eval(_validate_payload(Merged(st.data[idx], payload), entry_id, FreshId(nid + 1)),
         LAMBDA v :
            IF ~v.ok THEN [st |-> st, res |-> v.err, nid |-> nid]
            ELSE RebuildAndSave(UpdateAssign(st, idx, v.entry), nid))

\* TermsStore.update_entry
update_entry(st, entry_id, payload, nid) ==
    Eval(_entry_index(st, entry_id),
         LAMBDA idx :
            IF idx = 0 THEN [st |-> st, res |-> "NOT_FOUND", nid |-> nid]
            ELSE UpdateAt(st, idx, entry_id, payload, nid))

\* delete_entry: the pop and its history record
DeletePop(st, idx) ==
    _record_history([st EXCEPT !.data = SubSeq(st.data, 1, idx - 1)
                                         \o SubSeq(st.data, idx + 1, Len(st.data))],
                    HistoryRecord("delete", st.data[idx].id, st.data[idx].src, 0, 0))

\* delete_entry, from self._data["entries"].pop(idx) on
DeleteAt(st, idx, nid) == RebuildAndSave(DeletePop(st, idx), nid)

\* TermsStore.delete_entry
delete_entry(st, entry_id, nid) ==
    Eval(_entry_index(st, entry_id),
         LAMBDA idx :
            IF idx = 0 THEN [st |-> st, res |-> "NOT_FOUND", nid |-> nid]
            ELSE DeleteAt(st, idx, nid))

\* by_src of import_entries: normalized src -> (idx, item); a later entry of the
\* list overwrites an earlier one with the same key
BySrcOf(entries) ==
    LET keys == {_normalize_src(entries[i].src) : i \in 1..Len(entries)}
        lastOf(k) == CHOOSE i \in 1..Len(entries) :
                         /\ _normalize_src(entries[i].src) = k
                         /\ \A j \in (i + 1)..Len(entries) :
                                _normalize_src(entries[j].src) # k
    IN  [k \in keys |-> [idx |-> lastOf(k), item |-> entries[lastOf(k)]]]

BySrcPut(by_src, key, idx, item) ==
    [k \in DOMAIN by_src \cup {key} |->
        IF k = key THEN [idx |-> idx, item |-> item] ELSE by_src[k]]

\* an import in which an incoming entry replaces the stored one only when its
\* priority is strictly higher
ImportValid_StrictlyHigher(entry, key, acc) ==
    IF key \in DOMAIN acc.by_src
    THEN IF entry.priority > acc.by_src[key].item.priority
         THEN [acc EXCEPT
                  !.data[acc.by_src[key].idx] = entry,
                  !.by_src = BySrcPut(acc.by_src, key, acc.by_src[key].idx, entry),
                  !.updated = acc.updated + 1]
         ELSE acc
    ELSE IF LimitExceeded(Len(acc.data) + 1)
    THEN [acc EXCEPT !.res = "TERMS_LIMIT"]
    ELSE [acc EXCEPT
             !.data = Append(acc.data, entry),
             !.by_src = BySrcPut(acc.by_src, key, Len(acc.data) + 1, entry),
             !.added = acc.added + 1]

\* an import that counts as updated a row it passes over for its lower priority
ImportValid_CountsPassedOver(entry, key, acc) ==
    IF key \in DOMAIN acc.by_src
    THEN IF entry.priority >= acc.by_src[key].item.priority
         THEN [acc EXCEPT
                  !.data[acc.by_src[key].idx] = entry,
                  !.by_src = BySrcPut(acc.by_src, key, acc.by_src[key].idx, entry),
                  !.updated = acc.updated + 1]
         ELSE [acc EXCEPT !.updated = acc.updated + 1]
    ELSE IF LimitExceeded(Len(acc.data) + 1)
    THEN [acc EXCEPT !.res = "TERMS_LIMIT"]
    ELSE [acc EXCEPT
             !.data = Append(acc.data, entry),
             !.by_src = BySrcPut(acc.by_src, key, Len(acc.data) + 1, entry),
             !.added = acc.added + 1]

\* The body of the loop of import_entries for a raw entry that validated as
\* entry, key being its normalized src; acc is
\* [data, by_src, added, updated, nid, res]
ImportValid(entry, key, acc) ==
    IF key \in DOMAIN acc.by_src
    THEN IF entry.priority >= acc.by_src[key].item.priority
         THEN [acc EXCEPT
                  !.data[acc.by_src[key].idx] = entry,
                  !.by_src = BySrcPut(acc.by_src, key, acc.by_src[key].idx, entry),
                  !.updated = acc.updated + 1]
         ELSE acc
    ELSE IF LimitExceeded(Len(acc.data) + 1)
    THEN [acc EXCEPT !.res = "TERMS_LIMIT"]
    ELSE [acc EXCEPT
             !.data = Append(acc.data, entry),
             !.by_src = BySrcPut(acc.by_src, key, Len(acc.data) + 1, entry),
             !.added = acc.added + 1]

\* One iteration of the loop of import_entries: a TermsValidationError skips
\* the row, any other exception leaves the loop
ImportStep(raw, acc) ==
    Eval(_validate_payload(raw, "", FreshId(acc.nid + 1)),
         LAMBDA v :
            Eval([acc EXCEPT !.nid = IF v.drew THEN acc.nid + 1 ELSE acc.nid],
                 LAMBDA acc1 :
                    IF v.ok
                    THEN Eval(_normalize_src(v.entry.src),
                              LAMBDA key : ImportValid(v.entry, key, acc1))
                    ELSE IF v.err \notin ValidationErrors
                    THEN [acc1 EXCEPT !.res = v.err]
                    ELSE acc1))

RECURSIVE ImportLoop(_, _, _)
ImportLoop(entries, i, acc) ==
    IF i > Len(entries) \/ acc.res # "ok" THEN acc
    ELSE ImportLoop(entries, i + 1, Eval(acc, LAMBDA a : ImportStep(entries[i], a)))

\* import_entries: the list its loop built, and its history record
ImportRecord(st, loop) ==
    _record_history([st EXCEPT !.data = loop.data],
                    HistoryRecord("import", "", <<>>, loop.added, loop.updated))

\* the accumulator the loop of import_entries starts from
ImportStart(st, nid) ==
    [data |-> st.data, by_src |-> BySrcOf(st.data), added |-> 0, updated |-> 0,
     nid |-> nid, res |-> "ok"]

\* import_entries, after its loop
ImportFinish(st, loop) ==
    IF loop.res # "ok"
    THEN [st |-> [st EXCEPT !.data = loop.data], res |-> loop.res, nid |-> loop.nid,
          added |-> loop.added, updated |-> loop.updated]
    ELSE Eval(save(_rebuild_indexes(ImportRecord(st, loop))),
              LAMBDA r : [st |-> r.st, res |-> r.res, nid |-> loop.nid,
                          added |-> loop.added, updated |-> loop.updated])

\* TermsStore.import_entries
import_entries(st, entries, nid) ==
    Eval(ImportLoop(entries, 1, ImportStart(st, nid)),
         LAMBDA loop : ImportFinish(st, loop))

----------------------------------------------------------------------------
(* The replacement pipeline *)

\* _levenshtein_limited: one row of the table, current[0..j] being built from
\* previous; rows are 1-indexed here, so current[j + 1] is the code's current[j]
RECURSIVE LevRow(_, _, _, _, _)
LevRow(char_a, b, previous, current, j) ==
    IF j > Len(b) THEN current
    ELSE LET cost == IF char_a = b[j] THEN 0 ELSE 1
             insertion == current[j] + 1
             deletion == previous[j + 1] + 1
             substitution == previous[j] + cost
             least2 == IF insertion < deletion THEN insertion ELSE deletion
             value == IF substitution < least2 THEN substitution ELSE least2
         IN  LevRow(char_a, b, previous, Append(current, value), j + 1)

\* min(max_dist + 1, the values appended to the row)
RowLeast(current, max_dist) ==
    LET vals == {current[k] : k \in 2..Len(current)} \cup {max_dist + 1}
    IN  CHOOSE v \in vals : \A w \in vals : v <= w

RECURSIVE LevRows(_, _, _, _, _)
LevRows(a, b, max_dist, previous, i) ==
    IF i > Len(a) THEN previous[Len(previous)]
    ELSE Eval(LevRow(a[i], b, previous, <<i>>, 1),
              LAMBDA current :
                 IF RowLeast(current, max_dist) > max_dist THEN max_dist + 1
                 ELSE LevRows(a, b, max_dist, current, i + 1))

AbsDiff(m, n) == IF m >= n THEN m - n ELSE n - m

\* _levenshtein_limited
_levenshtein_limited(a, b, max_dist) ==
    IF a = b THEN 0
    ELSE IF AbsDiff(Len(a), Len(b)) > max_dist THEN max_dist + 1
    ELSE LevRows(a, b, max_dist, [k \in 1..(Len(b) + 1) |-> k - 1], 1)

\* TermsStore._collect_exact_ids
_collect_exact_ids(st, text) ==
    LET folded == _strip_accents(Lower(text))
        normalized_chars == {<<folded[i]>> : i \in 1..Len(folded)}
        hit == normalized_chars \cap DOMAIN st.exact_index
    IN  UNION {UNION {{st.exact_index[c][l][k].id : k \in 1..Len(st.exact_index[c][l])} :
                        l \in {m \in DOMAIN st.exact_index[c] : m <= Len(text)}} :
               c \in hit}

\* a compiled pattern: the literal it matches, whether \b anchors it, and
\* whether it was compiled with re.IGNORECASE.  (The regex entries modelled are
\* literals without metacharacters.)
Pattern(src, anchored, case_sensitive) ==
    [src |-> src, anchored |-> anchored, cs |-> case_sensitive]

\* two characters match under the pattern's flags
CharEq(c, d, case_sensitive) ==
    IF case_sensitive THEN c = d ELSE CaseFold(c) = CaseFold(d)

\* \b before position pos of text (pos in 1..Len(text)+1)
WordBoundary(text, pos) ==
    LET before == pos > 1 /\ IsWord(text[pos - 1])
        after == pos <= Len(text) /\ IsWord(text[pos])
    IN  before # after

\* the pattern matches text at position pos
MatchesAt(text, pos, pattern) ==
    /\ pos + Len(pattern.src) - 1 <= Len(text)
    /\ \A k \in 1..Len(pattern.src) :
        CharEq(text[pos + k - 1], pattern.src[k], pattern.cs)
    /\ pattern.anchored =>
        WordBoundary(text, pos) /\ WordBoundary(text, pos + Len(pattern.src))

\* the change record _replacement appends
Change(entry, start, end, kind) ==
    [id |-> entry.id, src |-> entry.src, dst |-> entry.dst, start |-> start,
     end |-> end, kind |-> kind]

\* pattern.subn(_replacement, text): leftmost non-overlapping matches from pos
\* on; acc is [out, matches]
RECURSIVE Subn(_, _, _, _, _, _)
Subn(text, pos, pattern, entry, kind, acc) ==
    IF pos > Len(text) THEN acc
    ELSE IF MatchesAt(text, pos, pattern)
    THEN Subn(text, pos + Len(pattern.src), pattern, entry, kind,
              Eval(acc, LAMBDA a :
                  [out |-> a.out \o entry.dst,
                   matches |-> Append(a.matches,
                                      Change(entry, pos - 1,
                                             pos - 1 + Len(pattern.src), kind))]))
    ELSE Subn(text, pos + 1, pattern, entry, kind,
              Eval(acc, LAMBDA a : [a EXCEPT !.out = Append(a.out, text[pos])]))

\* TermsStore._apply_pattern
_apply_pattern(text, pattern, entry, kind) ==
    Eval(Subn(text, 1, pattern, entry, kind, [out |-> <<>>, matches |-> <<>>]),
         LAMBDA r : IF r.matches = <<>> THEN [out |-> text, matches |-> <<>>] ELSE r)

\* a cache that is looked up by the id alone
Cached_AnyCase(cache, id, case_sensitive) == {c \in cache : c.id = id}

\* the pattern cached under (id, case_sensitive), or none
Cached(cache, id, case_sensitive) ==
    {c \in cache : c.id = id /\ c.cs = case_sensitive}

\* _compile_exact / _compile_regex: the cached pattern if there is one, else
\* the entry's own
Compiled(cache, entry, case_sensitive, anchored) ==
    IF Cached(cache, entry.id, case_sensitive) # {}
    THEN (CHOOSE c \in Cached(cache, entry.id, case_sensitive) : TRUE).pattern
    ELSE Pattern(entry.src, anchored, case_sensitive)

CachePut(cache, entry, case_sensitive, pattern) ==
    IF Cached(cache, entry.id, case_sensitive) # {} THEN cache
    ELSE cache \cup {[id |-> entry.id, cs |-> case_sensitive, pattern |-> pattern]}

\* what one entry of the main pass did: the working text it found and left
Trace(entry, before, after, applied, n) ==
    [entry |-> entry, before |-> before, after |-> after, applied |-> applied,
     n |-> n]

\* an entry of the main pass whose pattern is run on the working text; acc is
\* [working, changes, ce, cr, trace]
ApplyEntry(entry, pattern, kind, acc) ==
    Eval(_apply_pattern(acc.working, pattern, entry, kind),
         LAMBDA r :
            [working |-> r.out,
             changes |-> acc.changes \o r.matches,
             ce |-> IF kind = "exact"
                    THEN CachePut(acc.ce, entry, pattern.cs, pattern) ELSE acc.ce,
             cr |-> IF kind = "regex"
                    THEN CachePut(acc.cr, entry, pattern.cs, pattern) ELSE acc.cr,
             trace |-> Append(acc.trace,
                              Trace(entry, acc.working, r.out, TRUE, Len(r.matches)))])

SkipEntry(entry, acc) ==
    [acc EXCEPT !.trace = Append(acc.trace,
                                 Trace(entry, acc.working, acc.working, FALSE, 0))]

\* the body of the main loop of replace
MainStep(entry, allowed_exact, case_sensitive, enable_regex, acc) ==
    IF ~entry.active THEN SkipEntry(entry, acc)
    ELSE IF entry.type = "exact"
    THEN IF entry.id \notin allowed_exact THEN SkipEntry(entry, acc)
         ELSE ApplyEntry(entry, Compiled(acc.ce, entry, case_sensitive, TRUE),
                         "exact", acc)
    ELSE IF ~enable_regex THEN SkipEntry(entry, acc)
         ELSE ApplyEntry(entry, Compiled(acc.cr, entry, case_sensitive, FALSE),
                         "regex", acc)

RECURSIVE MainPass(_, _, _, _, _, _)
MainPass(ordered, i, allowed_exact, case_sensitive, enable_regex, acc) ==
    IF i > Len(ordered) THEN acc
    ELSE MainPass(ordered, i + 1, allowed_exact, case_sensitive, enable_regex,
                  Eval(acc, LAMBDA a :
                      MainStep(ordered[i], allowed_exact, case_sensitive,
                               enable_regex, a)))

\* the spans of \b\w+\b in text from pos on: maximal runs of word characters
RECURSIVE Tokens(_, _, _)
Tokens(text, pos, acc) ==
    IF pos > Len(text) THEN acc
    ELSE IF ~IsWord(text[pos]) THEN Tokens(text, pos + 1, acc)
    ELSE LET stop == CHOOSE e \in pos..Len(text) :
                        /\ \A k \in pos..e : IsWord(text[k])
                        /\ e = Len(text) \/ ~IsWord(text[e + 1])
         IN  Tokens(text, stop + 1, Append(acc, [start |-> pos, stop |-> stop]))

\* the inner loop of _apply_fuzzy over self._fuzzy_exact_entries; best is
\* [entry, distance, found, done]
RECURSIVE BestCandidate(_, _, _, _, _)
BestCandidate(st, accentless_token, fuzzy_dist, k, best) ==
    IF k > Len(st.fuzzy_exact) \/ best.done THEN best
    ELSE LET entry == st.fuzzy_exact[k]
             candidate == IF entry.id \in DOMAIN st.accent_index
                          THEN st.accent_index[entry.id] ELSE <<>>
         IN  IF AbsDiff(Len(candidate), Len(accentless_token)) > fuzzy_dist
             THEN BestCandidate(st, accentless_token, fuzzy_dist, k + 1, best)
             ELSE BestCandidate(st, accentless_token, fuzzy_dist, k + 1,
                      Eval(_levenshtein_limited(accentless_token, candidate,
                                                fuzzy_dist),
                           LAMBDA distance :
                              IF distance <= fuzzy_dist /\ distance < best.distance
                              THEN [entry |-> entry, distance |-> distance,
                                    found |-> TRUE, done |-> distance = 0]
                              ELSE best))

\* the loop of _apply_fuzzy over the tokens; acc is [pieces, matches, last_end]
RECURSIVE FuzzyLoop(_, _, _, _, _, _, _)
FuzzyLoop(st, text, case_sensitive, fuzzy_dist, tokens, t, acc) ==
    IF t > Len(tokens) THEN acc
    ELSE LET token == SubSeq(text, tokens[t].start, tokens[t].stop)
             baseline == IF case_sensitive THEN token ELSE Lower(token)
         IN  FuzzyLoop(st, text, case_sensitive, fuzzy_dist, tokens, t + 1,
                 Eval(BestCandidate(st, _strip_accents(baseline), fuzzy_dist, 1,
                                    [entry |-> NoEntry, distance |-> fuzzy_dist + 1,
                                     found |-> FALSE, done |-> FALSE]),
                      LAMBDA best :
                         IF best.found /\ best.distance <= fuzzy_dist
                         THEN [pieces |-> acc.pieces
                                          \o SubSeq(text, acc.last_end + 1,
                                                    tokens[t].start - 1)
                                          \o best.entry.dst,
                               matches |-> Append(acc.matches,
                                                  Change(best.entry,
                                                         tokens[t].start - 1,
                                                         tokens[t].stop, "fuzzy")),
                               last_end |-> tokens[t].stop]
                         ELSE acc))

\* TermsStore._apply_fuzzy
_apply_fuzzy(st, text, case_sensitive, fuzzy_dist) ==
    IF ~st.fuzzy_enabled \/ st.fuzzy_exact = <<>>
    THEN [out |-> text, matches |-> <<>>]
    ELSE Eval(FuzzyLoop(st, text, case_sensitive, fuzzy_dist,
                        Tokens(text, 1, <<>>), 1,
                        [pieces |-> <<>>, matches |-> <<>>, last_end |-> 0]),
              LAMBDA r :
                 IF r.matches = <<>> THEN [out |-> text, matches |-> <<>>]
                 ELSE [out |-> r.pieces \o SubSeq(text, r.last_end + 1, Len(text)),
                       matches |-> r.matches])

\* a replace whose fuzzy pass does not look at enable_fuzzy
ReplaceFinish_IgnoresEnableFuzzy(st, main, case_sensitive, enable_fuzzy, fuzzy_dist) ==
    IF fuzzy_dist > 0 /\ st.fuzzy_enabled
    THEN Eval(_apply_fuzzy(st, main.working, case_sensitive, fuzzy_dist),
              LAMBDA f : [out |-> f.out, changes |-> main.changes \o f.matches,
                          ce |-> main.ce, cr |-> main.cr, trace |-> main.trace])
    ELSE [out |-> main.working, changes |-> main.changes, ce |-> main.ce,
          cr |-> main.cr, trace |-> main.trace]

\* replace, after the main pass
ReplaceFinish(st, main, case_sensitive, enable_fuzzy, fuzzy_dist) ==
    IF enable_fuzzy /\ fuzzy_dist > 0 /\ st.fuzzy_enabled
    THEN Eval(_apply_fuzzy(st, main.working, case_sensitive, fuzzy_dist),
              LAMBDA f : [out |-> f.out, changes |-> main.changes \o f.matches,
                          ce |-> main.ce, cr |-> main.cr, trace |-> main.trace])
    ELSE [out |-> main.working, changes |-> main.changes, ce |-> main.ce,
          cr |-> main.cr, trace |-> main.trace]

\* the prefilter of replace: the ids eligible for the main pass
AllowedExact(st, text) == _collect_exact_ids(st, text)

\* TermsStore.replace: [out, changes], the caches it leaves, and what each
\* entry of the main pass found and did
replace(st, text, case_sensitive, enable_regex, enable_fuzzy, fuzzy_dist) ==
    IF text = <<>>
    THEN [out |-> text, changes |-> <<>>, ce |-> st.compiled_exact,
          cr |-> st.compiled_regex, trace |-> <<>>]
    ELSE Eval(MainPass(st.ordered_entries, 1, AllowedExact(st, text), case_sensitive,
                       enable_regex,
                       [working |-> text, changes |-> <<>>, ce |-> st.compiled_exact,
                        cr |-> st.compiled_regex, trace |-> <<>>]),
              LAMBDA main :
                 ReplaceFinish(st, main, case_sensitive, enable_fuzzy, fuzzy_dist))

\* replace has not been called: the text as it came, the caches as they are
Untouched(st, text) ==
    [out |-> text, changes |-> <<>>, ce |-> st.compiled_exact,
     cr |-> st.compiled_regex, trace |-> <<>>]

\* an apply_terms that passes the settings on for a partial as for a final text
apply_terms_PartialAsFinal(st, settings, text, for_partial) ==
    IF text = <<>> THEN Untouched(st, text)
    ELSE IF for_partial /\ ~settings.terms_apply_to_partials THEN Untouched(st, text)
    ELSE replace(st, text, settings.terms_case_sensitive, settings.terms_enable_regex,
                 settings.terms_enable_fuzzy,
                 IF settings.terms_enable_fuzzy THEN settings.terms_fuzzy_max_dist
                 ELSE 0)

\* apply_terms of app/textnorm.py on the store get_terms_store() returns
apply_terms(st, settings, text, for_partial) ==
    IF text = <<>> THEN Untouched(st, text)
    ELSE IF for_partial /\ ~settings.terms_apply_to_partials THEN Untouched(st, text)
    ELSE replace(st, text, settings.terms_case_sensitive,
                 IF for_partial THEN FALSE ELSE settings.terms_enable_regex,
                 IF for_partial THEN FALSE ELSE settings.terms_enable_fuzzy,
                 IF for_partial THEN 0
                 ELSE IF settings.terms_enable_fuzzy
                      THEN settings.terms_fuzzy_max_dist ELSE 0)

----------------------------------------------------------------------------
(* The calls made on the store *)

P_a == Payload({"src", "dst"}, "", <<" ", "a", " ">>, <<"b">>, "", IntOf(0), <<>>, "")
P_xa == Payload({"id", "src", "dst", "type", "priority"},
                "x", <<"a">>, <<"c">>, "EXACT", IntOf(200), <<>>, "")
P_xb == Payload({"id", "src", "dst", "type", "notes"},
                "x", <<"b">>, <<"c">>, "regex", IntOf(0), <<" ", "b">>, "")
P_A_off == Payload({"src", "dst", "priority", "active"},
                   "", <<"A">>, <<"s">>, "", IntOf(50), <<>>, "False")
P_s == Payload({"src", "dst", "priority"},
               "", <<s_cedilla>>, <<"a">>, "", IntOf(100), <<>>, "")
P_sp == Payload({"src", "dst"}, "", <<"s">>, <<"c">>, "", IntOf(0), <<>>, "")
P_type5 == Payload({"src", "dst", "type"}, "", <<"a">>, <<"b">>, NonStrType, IntOf(0),
                   <<>>, "")
P_long == Payload({"src", "dst"}, "", [i \in 1..(MaxFieldLen + 1) |-> "a"], <<"b">>, "",
                  IntOf(0), <<>>, "")
P_offstr == Payload({"src", "dst", "active"}, "", <<"b">>, <<"a">>, "", IntOf(0), <<>>,
                    "'off'")
P_onstr == Payload({"src", "dst", "active"}, "", <<"b">>, <<"a">>, "", IntOf(0), <<>>,
                   "'on'")
P_nosrc == Payload({"dst"}, "", <<>>, <<"b">>, "", IntOf(0), <<>>, "")
P_badtype == Payload({"src", "dst", "type"}, "", <<"a">>, <<"b">>, "fuzzy", IntOf(0),
                     <<>>, "")
P_badre == Payload({"src", "dst", "type"}, "", <<"(">>, <<"b">>, "regex", IntOf(0),
                   <<>>, "")
P_high == Payload({"src", "dst", "priority"}, "", <<"c">>, <<"b">>, "", BadInt, <<>>, "")

AddPayloads == {P_a, P_xa, P_xb, P_A_off, P_nosrc, P_badre, P_high, P_badtype,
                P_type5, P_long, P_offstr, P_onstr}

U_dst == Payload({"dst"}, "", <<>>, <<"c", " ">>, "", IntOf(0), <<>>, "")
U_prio == Payload({"id", "priority", "active"}, "y", <<>>, <<>>, "", IntOf(300), <<>>,
                  "0")
U_blank == Payload({"src"}, "", <<" ">>, <<>>, "", IntOf(0), <<>>, "")
U_type5 == Payload({"type"}, "", <<>>, <<>>, NonStrType, IntOf(0), <<>>, "")
U_badre == Payload({"src", "type"}, "", <<"(">>, <<>>, "regex", IntOf(0), <<>>, "")

UpdatePayloads == {U_dst, U_prio, U_blank, U_type5, U_badre}

ImportBatches == {<<P_a, P_s>>, <<P_A_off, P_badtype, P_xa>>, <<P_xb, P_high>>,
                  <<P_s, P_xa, P_xb>>, <<P_s, P_sp>>}

\* ids a caller may name: those in the list, and one that is not
KnownIds == {data[i].id : i \in 1..Len(data)} \cup {"nope"}

\* Documents another process may leave at the path (there is no cross-process
\* coordination): unparseable text, no file, one entry more than max_entries,
\* and a document with a repeated id and an entry that does not validate
OverLimitDoc ==
    Doc([i \in 1..(MaxEntries + 1) |->
            EntryToJson(Entry("d" \o ToString(i), <<"c">>, <<"a">>, "exact", 100,
                              <<>>, TRUE))])
MixedDoc ==
    Doc(<<EntryToJson(Entry("d1", <<"b">>, <<"a">>, "exact", 100, <<>>, TRUE)),
          P_nosrc,
          EntryToJson(Entry("d1", <<"a">>, <<"b">>, "regex", 100, <<>>, FALSE))>>)

ExternalDocs == {Malformed, NoFile, OverLimitDoc, MixedDoc}

NoPayload == Payload({}, "", <<>>, <<>>, "", IntOf(0), <<>>, "")

Last(op, res, payload, entry_id, added, updated) ==
    [op |-> op, res |-> res, payload |-> payload, entry_id |-> entry_id,
     added |-> added, updated |-> updated]

\* the attributes of the store and the file take the values of st
Commit(st) ==
    /\ data' = st.data
    /\ ordered_entries' = st.ordered_entries
    /\ exact_index' = st.exact_index
    /\ accent_index' = st.accent_index
    /\ fuzzy_exact' = st.fuzzy_exact
    /\ fuzzy_enabled' = st.fuzzy_enabled
    /\ compiled_exact' = st.compiled_exact
    /\ compiled_regex' = st.compiled_regex
    /\ history' = st.history
    /\ disk' = st.disk

InitStore(st) ==
    /\ data = st.data
    /\ ordered_entries = st.ordered_entries
    /\ exact_index = st.exact_index
    /\ accent_index = st.accent_index
    /\ fuzzy_exact = st.fuzzy_exact
    /\ fuzzy_enabled = st.fuzzy_enabled
    /\ compiled_exact = st.compiled_exact
    /\ compiled_regex = st.compiled_regex
    /\ history = st.history
    /\ disk = st.disk

\* what replace was called with, what it returned, and what each entry of the
\* main pass found and did
Replaced(text, case_sensitive, enable_regex, enable_fuzzy, fuzzy_dist, r) ==
    [called |-> TRUE, text |-> text, case_sensitive |-> case_sensitive,
     enable_regex |-> enable_regex, enable_fuzzy |-> enable_fuzzy,
     fuzzy_dist |-> fuzzy_dist, out |-> r.out, changes |-> r.changes,
     trace |-> r.trace]

NoReplace ==
    [called |-> FALSE, text |-> <<>>, case_sensitive |-> FALSE,
     enable_regex |-> FALSE, enable_fuzzy |-> FALSE, fuzzy_dist |-> 0,
     out |-> <<>>, changes |-> <<>>, trace |-> <<>>]

\* a call of _levenshtein_limited and the value it has returned
Measured(a, b, max_dist, value) ==
    [called |-> TRUE, a |-> a, b |-> b, max_dist |-> max_dist, value |-> value]

NoLev == [called |-> FALSE, a |-> <<>>, b |-> <<>>, max_dist |-> 0, value |-> 0]

\* a segment text and what normalize_text has made of it: pc is "raw" before
\* the call, "segment" after the call on the segment, "final" after the call
\* on the combined text
Normalizing(pc, text, segment, final) ==
    [pc |-> pc, text |-> text, segment |-> segment, final |-> final]

NoNorm == Normalizing("none", <<>>, <<>>, <<>>)

\* the settings apply_terms reads (Settings of app/config.py)
Settings(apply_to_partials, case_sensitive, enable_regex, enable_fuzzy, fuzzy_max_dist) ==
    [terms_apply_to_partials |-> apply_to_partials,
     terms_case_sensitive |-> case_sensitive,
     terms_enable_regex |-> enable_regex,
     terms_enable_fuzzy |-> enable_fuzzy,
     terms_fuzzy_max_dist |-> fuzzy_max_dist]

\* what apply_terms was called with, under which settings, and what it returned
Applied(settings, text, for_partial, r) ==
    [called |-> TRUE, settings |-> settings, text |-> text,
     for_partial |-> for_partial, out |-> r.out, changes |-> r.changes]

NoApply ==
    [called |-> FALSE, settings |-> Settings(FALSE, FALSE, FALSE, FALSE, 0),
     text |-> <<>>, for_partial |-> FALSE, out |-> <<>>, changes |-> <<>>]

\* self._lock, a threading.RLock: the thread that owns it (0 for none) and how
\* many times it has acquired it
Lock(owner, depth) == [owner |-> owner, depth |-> depth]
NoLock == [lock |-> Lock(0, 0), stable |-> <<>>, init |-> <<>>]

\* The text json.dump writes, in the pieces it hands to handle.write: the opening
\* of the object, one piece per entry, the closing
Piece(t, v) == [t |-> t, v |-> v]
Serialize(document) ==
    <<Piece("{", NoPayload)>>
        \o [i \in 1..Len(document.entries) |-> Piece("entry", document.entries[i])]
        \o <<Piece("}", NoPayload)>>

\* no file at a path
Absent == <<Piece("absent", NoPayload)>>

\* what load makes of the file at self.path: json.load of its text
Parse(content) ==
    IF content = Absent THEN NoFile
    ELSE IF /\ Len(content) >= 2
            /\ content[1].t = "{"
            /\ content[Len(content)].t = "}"
            /\ \A i \in 2..(Len(content) - 1) : content[i].t = "entry"
    THEN Doc([i \in 1..(Len(content) - 2) |-> content[i + 1].v])
    ELSE Malformed

\* the content of the file holding document
Content(document) ==
    IF document.kind = "doc" THEN Serialize(document)
    ELSE IF document.kind = "missing" THEN Absent
    ELSE <<Piece("?", NoPayload)>>

\* the files of a process that is not writing: suffix is self.path.suffix
Files(suffix, document) ==
    [suffix |-> suffix, canon |-> Content(document), tmp |-> Absent, pc |-> "idle",
     prev |-> Content(document), next |-> Content(document), n |-> 0,
     history |-> <<>>, last |-> NoPayload]

\* TermsStore.__init__ before its load(), no file at the path yet
Blank == Store(<<>>, <<>>, <<>>, <<>>, <<>>, TRUE, {}, {}, <<>>, NoFile)

Init ==
    /\ \E r \in {load(Blank, 0)} :
        /\ InitStore(r.st)
        /\ last = Last("init", r.res, NoPayload, "", 0, 0)
    /\ nextId = 0
    /\ ops = 0
    /\ foreign = FALSE
    /\ rep = NoReplace
    /\ lev = NoLev
    /\ norm = NoNorm
    /\ appl = NoApply
    /\ fs = Files("json", disk)
    /\ thr = <<>>
    /\ conc = NoLock

Add ==
    /\ ops < MaxOps
    /\ \E payload \in AddPayloads :
        \E r \in {add_entry(Self, payload, nextId)} :
            /\ Commit(r.st)
            /\ last' = Last("add_entry", r.res, payload, "", 0, 0)
            /\ nextId' = r.nid
    /\ ops' = ops + 1
    /\ UNCHANGED <<foreign, auxVars>>

Update ==
    /\ ops < MaxOps
    /\ \E entry_id \in KnownIds, payload \in UpdatePayloads :
        \E r \in {update_entry(Self, entry_id, payload, nextId)} :
            /\ Commit(r.st)
            /\ last' = Last("update_entry", r.res, payload, entry_id, 0, 0)
            /\ nextId' = r.nid
    /\ ops' = ops + 1
    /\ UNCHANGED <<foreign, auxVars>>

Delete ==
    /\ ops < MaxOps
    /\ \E entry_id \in KnownIds :
        \E r \in {delete_entry(Self, entry_id, nextId)} :
            /\ Commit(r.st)
            /\ last' = Last("delete_entry", r.res, NoPayload, entry_id, 0, 0)
            /\ nextId' = r.nid
    /\ ops' = ops + 1
    /\ UNCHANGED <<foreign, auxVars>>

Import ==
    /\ ops < MaxOps
    /\ \E entries \in ImportBatches :
        \E r \in {import_entries(Self, entries, nextId)} :
            /\ Commit(r.st)
            /\ last' = Last("import_entries", r.res, NoPayload, "", r.added, r.updated)
            /\ nextId' = r.nid
    /\ ops' = ops + 1
    /\ UNCHANGED <<foreign, auxVars>>

Reload ==
    /\ ops < MaxOps
    /\ \E r \in {load(Self, nextId)} :
           /\ Commit(r.st)
           /\ last' = Last("reload", r.res, NoPayload, "", 0, 0)
           /\ nextId' = r.nid
    /\ ops' = ops + 1
    /\ UNCHANGED <<foreign, auxVars>>

Save ==
    /\ ops < MaxOps
    /\ \E r \in {save(Self)} :
           /\ Commit(r.st)
           /\ last' = Last("save", r.res, NoPayload, "", 0, 0)
    /\ UNCHANGED nextId
    /\ ops' = ops + 1
    /\ UNCHANGED <<foreign, auxVars>>

\* another process rewrites or removes the file
ExternalWrite ==
    /\ ops < MaxOps
    /\ \E document \in ExternalDocs : disk' = document
    /\ last' = Last("external", "ok", NoPayload, "", 0, 0)
    /\ UNCHANGED <<data, ordered_entries, exact_index, accent_index, fuzzy_exact,
                   fuzzy_enabled, compiled_exact, compiled_regex, history, nextId>>
    /\ ops' = ops + 1
    /\ foreign' = TRUE
    /\ UNCHANGED auxVars

vars == <<data, ordered_entries, exact_index, accent_index, fuzzy_exact,
          fuzzy_enabled, compiled_exact, compiled_regex, history, disk, last,
          nextId, ops, foreign, rep, fs, thr, conc, lev, norm, appl>>

Next == Add \/ Update \/ Delete \/ Import \/ Reload \/ Save \/ ExternalWrite

Spec == Init /\ [][Next]_vars

----------------------------------------------------------------------------
(* The replacement pipeline on a store loaded from a glossary file *)

\* longest input text enumerated
MaxTextLen == 3

TextChars == {"a", "b", "A", " "}
\* every text of at most MaxTextLen characters, and a few longer ones
LongTexts == {<<"a", " ", "a", " ", "a">>, <<"a", "b", " ", "a">>, <<s_cedilla>>,
              <<"s", " ", "a">>, <<I_dot>>, <<"i">>, <<"a", " ", I_dot>>,
              <<"i", dot_above>>}
Texts == UNION {[1..n -> TextChars] : n \in 0..MaxTextLen} \cup LongTexts

\* enable_fuzzy and fuzzy_dist as the callers pass them
FuzzyArgs == {<<FALSE, 1>>, <<TRUE, 0>>, <<TRUE, 1>>}

R_ab == Entry("r1", <<"a">>, <<"b">>, "exact", 200, <<>>, TRUE)
R_bc == Entry("r2", <<"b">>, <<"c">>, "exact", 100, <<>>, TRUE)
R_ac == Entry("r3", <<"a">>, <<"c">>, "exact", 50, <<>>, TRUE)
R_aab == Entry("r4", <<"a">>, <<"a", " ", "b">>, "exact", 200, <<>>, TRUE)
R_aA == Entry("r5", <<"a">>, <<"A">>, "exact", 200, <<>>, TRUE)
R_re == Entry("r6", <<"a">>, <<"b">>, "regex", 100, <<>>, TRUE)
R_off == Entry("r7", <<"a">>, <<"s">>, "exact", 300, <<>>, FALSE)
R_mm == Entry("r8", <<"a", " ", "a">>, <<"a">>, "exact", 200, <<>>, TRUE)
R_mc == Entry("r9", <<"a", " ", "a">>, <<"c">>, "exact", 50, <<>>, TRUE)
R_s == Entry("r10", <<s_cedilla>>, <<"a">>, "exact", 100, <<>>, TRUE)
\* an entry with the src and the priority of R_ab
R_a2 == Entry("r12", <<"a">>, <<"c">>, "exact", 200, <<>>, TRUE)
\* an inactive entry that carries the id of R_ab
R_offdup == Entry("r1", <<"b", "b">>, <<"s">>, "exact", 50, <<>>, FALSE)
\* a regex entry that carries the id of R_ab
R_redup == Entry("r1", <<"a", "b">>, <<"c">>, "regex", 100, <<>>, TRUE)
R_I == Entry("r11", <<I_dot>>, <<"b">>, "exact", 100, <<>>, TRUE)
\* an entry that carries the id of R_ab
R_dup == Entry("r1", <<"b">>, <<"b">>, "exact", 300, <<>>, TRUE)

\* the glossaries: entry lists in file order
Glossaries ==
    {<<>>, <<R_ab>>, <<R_ab, R_ac>>, <<R_ac, R_ab>>, <<R_aab, R_ac>>, <<R_aA, R_ac>>,
     <<R_ab, R_bc>>, <<R_re, R_ac>>, <<R_bc, R_re>>, <<R_off, R_ab>>, <<R_mm, R_mc>>,
     <<R_s, R_ab>>, <<R_I>>, <<R_I, R_ab>>, <<R_ab, R_redup>>, <<R_ab, R_offdup>>, <<R_ab, R_a2>>, <<R_dup, R_ab, R_ac>>, <<R_off, R_ac, R_ab>>, <<R_ab, R_bc, R_ac>>}

\* the files a store of max_entries entries loads in full
GlossaryDocs ==
    {Doc([i \in 1..Len(g) |-> EntryToJson(g[i])]) :
        g \in {h \in Glossaries : Len(h) <= MaxEntries}}

InitReplace ==
    /\ \E document \in GlossaryDocs :
        \E r \in {load([Blank EXCEPT !.disk = document], 0)} :
            /\ InitStore(r.st)
            /\ last = Last("init", r.res, NoPayload, "", 0, 0)
    /\ nextId = 0
    /\ ops = 0
    /\ foreign = FALSE
    /\ rep = NoReplace
    /\ lev = NoLev
    /\ norm = NoNorm
    /\ appl = NoApply
    /\ fs = Files("json", disk)
    /\ thr = <<>>
    /\ conc = NoLock

\* the first replace call on the loaded store, with a text of the set
ReplaceOf(texts) ==
    /\ ~rep.called
    /\ \E text \in texts, case_sensitive \in BOOLEAN, enable_regex \in BOOLEAN,
          fuzzy \in FuzzyArgs :
        \E r \in {replace(Self, text, case_sensitive, enable_regex, fuzzy[1],
                          fuzzy[2])} :
            /\ compiled_exact' = r.ce
            /\ compiled_regex' = r.cr
            /\ rep' = Replaced(text, case_sensitive, enable_regex, fuzzy[1],
                               fuzzy[2], r)
    /\ last' = Last("replace", "ok", NoPayload, "", 0, 0)
    /\ ops' = ops + 1
    /\ UNCHANGED <<data, ordered_entries, exact_index, accent_index, fuzzy_exact,
                   fuzzy_enabled, history, disk, nextId, foreign, fs, thr, conc, lev, norm, appl>>

Replace == ReplaceOf(Texts)

NextReplace == Replace

SpecReplace == InitReplace /\ [][NextReplace]_vars

----------------------------------------------------------------------------
(* Claims on the store's calls *)

Mutating == {"add_entry", "update_entry", "delete_entry", "import_entries"}

\* C1: add_entry called on a store that holds max_entries entries leaves the
\* entry list, the indexes, the caches, the history and the file as they were,
\* and, for a payload that passes validation (add_entry validates first),
\* raises TERMS_LIMIT.
C1_AddAtLimitUnchanged ==
    [][(ops' = ops + 1 /\ last'.op = "add_entry" /\ Len(data) = MaxEntries)
        => /\ UNCHANGED storeVars
           /\ last'.res # "ok"
           /\ _validate_payload(last'.payload, "", "").ok
                => last'.res = "TERMS_LIMIT"]_vars

\* a full store on which add_entry, given a valid payload, raised TERMS_LIMIT
C1_Witness ==
    /\ last.op = "add_entry"
    /\ last.res = "TERMS_LIMIT"
    /\ _validate_payload(last.payload, "", "").ok
    /\ Len(data) = MaxEntries

IdsUnique(entries) ==
    \A i, j \in 1..Len(entries) : i # j => entries[i].id # entries[j].id

\* C6: no two entries of the entry list have the same id, after any sequence of
\* add_entry, update_entry, delete_entry, import_entries and reload (the file
\* being written by the store alone).
C6_IdsUnique == ~foreign => IdsUnique(data)

\* C7: the entry list never holds more than max_entries entries, whether the
\* last call returned or raised, a reload of a document with more than
\* max_entries valid entries included.
C7_CountWithinLimit == Len(data) <= MaxEntries

Occurrences(entries, e) == Cardinality({i \in 1..Len(entries) : entries[i] = e})

\* ordered holds exactly the entries of entries, each as often
SameEntries(ordered, entries) ==
    /\ Len(ordered) = Len(entries)
    /\ \A i \in 1..Len(entries) :
        Occurrences(ordered, entries[i]) = Occurrences(entries, entries[i])

\* priority descending, then exact before regex, then src ascending
CanonicallySorted(ordered) ==
    \A i \in 1..(Len(ordered) - 1) : ~KeyLess(ordered[i + 1], ordered[i])

\* C8: between calls, each of which returned or raised, ordered_entries holds
\* exactly the entries of the entry list, in canonical order (the file being
\* written by the store alone).
C8_OrderedMatchesData ==
    ~foreign => SameEntries(ordered_entries, data) /\ CanonicallySorted(ordered_entries)

----------------------------------------------------------------------------
(* The order of the main pass *)

\* the pattern has a match somewhere in text
HasMatch(text, pattern) == \E pos \in 1..Len(text) : MatchesAt(text, pos, pattern)

\* text with every whole-word occurrence of the entry's src rewritten to its dst
Rewritten(text, entry, case_sensitive) ==
    Subn(text, 1, Pattern(entry.src, TRUE, case_sensitive), entry, "exact",
         [out |-> <<>>, matches |-> <<>>]).out

SingleWord(src) == \A k \in 1..Len(src) : IsWord(src[k])

\* steps h and l of the main pass are a higher- and a lower-priority active
\* exact entry with the same src
Duplicates(h, l) ==
    /\ rep.trace[h].entry.active /\ rep.trace[l].entry.active
    /\ rep.trace[h].entry.type = "exact" /\ rep.trace[l].entry.type = "exact"
    /\ rep.trace[h].entry.src = rep.trace[l].entry.src
    /\ rep.trace[h].entry.priority > rep.trace[l].entry.priority

\* the higher-priority duplicate rewrote every whole-word occurrence of src in
\* the input and the lower-priority one produced no change record
HigherWins(h, l) ==
    /\ rep.trace[h].after = Rewritten(rep.text, rep.trace[h].entry, rep.case_sensitive)
    /\ rep.trace[l].n = 0
    /\ \A c \in 1..Len(rep.changes) :
        rep.changes[c].kind # "fuzzy" => rep.changes[c].id # rep.trace[l].entry.id

C10_LaterEntriesSeeRewrittenText ==
    (rep.called /\ IdsUnique(data))
        => \A k \in 1..Len(rep.trace) :
              ( /\ rep.trace[k].entry.active
                /\ rep.trace[k].entry.type = "exact"
                /\ \E i \in 1..(k - 1) : rep.trace[i].n > 0
                /\ HasMatch(rep.trace[k].before,
                            Pattern(rep.trace[k].entry.src, TRUE, rep.case_sensitive)) )
              => /\ rep.trace[k].n > 0
                 /\ rep.trace[k].after
                        = Rewritten(rep.trace[k].before, rep.trace[k].entry,
                                    rep.case_sensitive)

(***************************************************************************)
(* The prefilter of the exact entries                                      *)
(***************************************************************************)
\* src occurs in text, character for character
Occurs(src, text) ==
    /\ Len(src) > 0
    /\ \E pos \in 1..(Len(text) - Len(src) + 1) :
          SubSeq(text, pos, pos + Len(src) - 1) = src

\* C11: the prefilter never causes a false negative: for every text and every
\* exact entry of the store whose src occurs in the text, the ids returned by
\* _collect_exact_ids(text) contain the id of the entry, whatever the first
\* character of src (upper case and accented ones included) and whatever its
\* length up to the length of the text.
C11_PrefilterNoFalseNegative ==
    rep.called
        => \A k \in 1..Len(data) :
              (data[k].type = "exact" /\ Occurs(data[k].src, rep.text))
                  => data[k].id \in _collect_exact_ids(Self, rep.text)

----------------------------------------------------------------------------
(* A write of the file, step by step, in a process that may die *)

\* the suffixes of settings.terms_file (TERMS_FILE): the default's, and ".tmp"
PathSuffixes == {"json", "tmp"}

\* Path.with_suffix
with_suffix(suffix, new) == new

\* tmp_path and self.path name the same file
SamePath(f) == with_suffix(f.suffix, "tmp") = f.suffix

\* the file at tmp_path
TmpFile(f) == IF SamePath(f) THEN f.canon ELSE f.tmp

\* the file at tmp_path takes the content
WriteTmp(f, content) ==
    IF SamePath(f) THEN [f EXCEPT !.canon = content] ELSE [f EXCEPT !.tmp = content]

\* the calls that end in save()
CrashCalls ==
    {[op |-> "add_entry", payload |-> pl, entry_id |-> ""] : pl \in AddPayloads}
        \cup {[op |-> "delete_entry", payload |-> NoPayload, entry_id |-> id] :
                id \in KnownIds}
        \cup {[op |-> "save", payload |-> NoPayload, entry_id |-> ""]}

Outcome(c) ==
    IF c.op = "add_entry" THEN add_entry(Self, c.payload, nextId)
    ELSE IF c.op = "delete_entry" THEN delete_entry(Self, c.entry_id, nextId)
    ELSE Result(save(Self), nextId)

InitCrash ==
    /\ \E r \in {load(Blank, 0)} :
        /\ InitStore(r.st)
        /\ last = Last("init", r.res, NoPayload, "", 0, 0)
        /\ \E suffix \in PathSuffixes : fs = Files(suffix, r.st.disk)
    /\ nextId = 0
    /\ ops = 0
    /\ foreign = FALSE
    /\ rep = NoReplace
    /\ lev = NoLev
    /\ norm = NoNorm
    /\ appl = NoApply
    /\ thr = <<>>
    /\ conc = NoLock

\* a call that raises: it has not reached _atomic_write
CallRaises ==
    /\ fs.pc = "idle"
    /\ ops < MaxOps
    /\ \E c \in CrashCalls :
        \E r \in {Outcome(c)} :
            /\ r.res # "ok"
            /\ Commit(r.st)
            /\ last' = Last(c.op, r.res, c.payload, c.entry_id, 0, 0)
            /\ nextId' = r.nid
    /\ ops' = ops + 1
    /\ UNCHANGED <<foreign, rep, fs, thr, conc, lev, norm, appl>>

\* a call up to its _atomic_write: the list is mutated and the indexes rebuilt,
\* the "save" record of the history is still to come
CallWrites ==
    /\ fs.pc = "idle"
    /\ ops < MaxOps
    /\ \E c \in CrashCalls :
        \E r \in {Outcome(c)} :
            /\ r.res = "ok"
            /\ Commit([r.st EXCEPT !.history = Tail(r.st.history), !.disk = disk])
            /\ fs' = [fs EXCEPT !.pc = "enter", !.prev = fs.canon,
                                !.next = Content(r.st.disk), !.n = 0,
                                !.history = r.st.history,
                                !.last = Last(c.op, "ok", c.payload, c.entry_id, 0, 0)]
            /\ nextId' = r.nid
    /\ ops' = ops + 1
    /\ UNCHANGED <<last, foreign, rep, thr, conc, lev, norm, appl>>

\* tmp_path.open("w"): the file at tmp_path is created or truncated
OpenTmp ==
    /\ fs.pc = "enter"
    /\ \E f \in {WriteTmp([fs EXCEPT !.pc = "open"], <<>>)} :
        /\ fs' = f
        /\ disk' = Parse(f.canon)
    /\ UNCHANGED <<data, ordered_entries, exact_index, accent_index, fuzzy_exact,
                   fuzzy_enabled, compiled_exact, compiled_regex, history, last,
                   nextId, ops, foreign, rep, thr, conc, lev, norm, appl>>

\* json.dump hands the next piece of the text to the file
WriteChunk ==
    /\ fs.pc = "open"
    /\ fs.n < Len(fs.next)
    /\ \E f \in {WriteTmp([fs EXCEPT !.n = fs.n + 1],
                          Append(TmpFile(fs), fs.next[fs.n + 1]))} :
        /\ fs' = f
        /\ disk' = Parse(f.canon)
    /\ UNCHANGED <<data, ordered_entries, exact_index, accent_index, fuzzy_exact,
                   fuzzy_enabled, compiled_exact, compiled_regex, history, last,
                   nextId, ops, foreign, rep, thr, conc, lev, norm, appl>>

\* the with block ends: the file at tmp_path is closed
CloseTmp ==
    /\ fs.pc = "open"
    /\ fs.n = Len(fs.next)
    /\ fs' = [fs EXCEPT !.pc = "closed"]
    /\ UNCHANGED <<storeVars, last, nextId, ops, foreign, rep, thr, conc, lev, norm, appl>>

\* tmp_path.replace(self.path)
Rename ==
    /\ fs.pc = "closed"
    /\ \E f \in {[fs EXCEPT !.pc = "renamed", !.canon = TmpFile(fs), !.tmp = Absent]} :
        /\ fs' = f
        /\ disk' = Parse(f.canon)
    /\ UNCHANGED <<data, ordered_entries, exact_index, accent_index, fuzzy_exact,
                   fuzzy_enabled, compiled_exact, compiled_regex, history, last,
                   nextId, ops, foreign, rep, thr, conc, lev, norm, appl>>

\* save records its history entry and the call returns
Return ==
    /\ fs.pc = "renamed"
    /\ history' = fs.history
    /\ last' = fs.last
    /\ fs' = [fs EXCEPT !.pc = "idle", !.prev = fs.canon, !.next = fs.canon, !.n = 0]
    /\ UNCHANGED <<data, ordered_entries, exact_index, accent_index, fuzzy_exact,
                   fuzzy_enabled, compiled_exact, compiled_regex, disk, nextId, ops,
                   foreign, rep, thr, conc, lev, norm, appl>>

\* the process dies; the files stay as they are
Crash ==
    /\ fs.pc # "crashed"
    /\ fs' = [fs EXCEPT !.pc = "crashed"]
    /\ UNCHANGED <<storeVars, last, nextId, ops, foreign, rep, thr, conc, lev, norm, appl>>

\* a new process constructs the store over the files the dead one left
Restart ==
    /\ fs.pc = "crashed"
    /\ \E r \in {load([Blank EXCEPT !.disk = disk], nextId)} :
        /\ Commit(r.st)
        /\ last' = Last("init", r.res, NoPayload, "", 0, 0)
        /\ nextId' = r.nid
        /\ fs' = [fs EXCEPT !.pc = "idle", !.n = 0,
                            !.canon = IF r.st.disk = disk THEN fs.canon
                                      ELSE Content(r.st.disk),
                            !.prev = IF r.st.disk = disk THEN fs.canon
                                     ELSE Content(r.st.disk),
                            !.next = IF r.st.disk = disk THEN fs.canon
                                     ELSE Content(r.st.disk)]
    /\ UNCHANGED <<ops, foreign, rep, thr, conc, lev, norm, appl>>

NextCrash ==
    \/ CallRaises \/ CallWrites \/ OpenTmp \/ WriteChunk \/ CloseTmp \/ Rename
    \/ Return \/ Crash \/ Restart

SpecCrash == InitCrash /\ [][NextCrash]_vars

\* the text is a complete document
Complete(content) == Parse(content).kind = "doc"

\* C3: a write puts the complete new document into a temporary sibling file and
\* only then renames it over the canonical path: until the rename the canonical
\* file is the previous document, at the rename the temporary file is the
\* complete new one, and when the process dies the canonical file is the
\* complete previous or the complete new document.
C3_CrashLeavesCompleteDocument ==
    /\ fs.pc \in {"enter", "open", "closed"} => fs.canon = fs.prev
    /\ fs.pc = "closed" => TmpFile(fs) = fs.next /\ ~SamePath(fs)
    /\ fs.pc = "crashed" => Complete(fs.canon) /\ fs.canon \in {fs.prev, fs.next}

\* the same, for a canonical path whose suffix is not ".tmp"
CrashSafeWithSibling == ~SamePath(fs) => C3_CrashLeavesCompleteDocument

\* a process died inside a write and the next one found nothing to load
LostByCrash ==
    /\ last.op = "init"
    /\ fs.prev # Serialize(Doc(<<>>))
    /\ data = <<>>

----------------------------------------------------------------------------
(* Threads calling one store *)

\* number of threads, each making one call
NThreads == 2
Threads == 1..NThreads

Readers == {"replace", "list_entries", "stats"}

\* (mutant) the read-only calls do not take the lock
NeedsLock_WritersOnly(op) == op \notin Readers

\* the body of the operation is inside "with self._lock"
NeedsLock(op) == TRUE

\* (mutant) a lock that never makes a thread wait
CanAcquire_Unlocked(lock, t) == TRUE

\* (mutant) a lock that is not re-entrant: its owner waits for it as well
CanAcquire_NotReentrant(lock, t) == lock.owner = 0

\* RLock.acquire returns: no thread owns the lock, or this one does
CanAcquire(lock, t) == lock.owner \in {0, t}

Call(op, payload, entry_id, batch, text) ==
    [op |-> op, payload |-> payload, entry_id |-> entry_id, batch |-> batch,
     text |-> text]

ConcCalls ==
    {Call("add_entry", pl, "", <<>>, <<>>) : pl \in {P_a, P_xa, P_nosrc}}
        \cup {Call("update_entry", U_dst, "x", <<>>, <<>>),
              Call("delete_entry", NoPayload, "x", <<>>, <<>>),
              Call("import_entries", NoPayload, "", <<P_s, P_xa>>, <<>>),
              Call("import_entries", NoPayload, "", <<P_xb, P_high>>, <<>>),
              Call("save", NoPayload, "", <<>>, <<>>),
              Call("reload", NoPayload, "", <<>>, <<>>),
              Call("replace", NoPayload, "", <<>>, <<"a">>),
              Call("replace", NoPayload, "", <<>>, <<>>),
              Call("list_entries", NoPayload, "", <<>>, <<>>),
              Call("stats", NoPayload, "", <<>>, <<>>)}

\* a thread about to make the call
Thread(call) ==
    [call |-> call, pc |-> "start", res |-> "", entry |-> NoEntry, idx |-> 0,
     read |-> FALSE, obs |-> <<>>, quiet |-> <<>>, out |-> <<>>]

\* uuid4() values do not collide: thread t draws u<10t+1>, u<10t+2>, ...
IdBase(t) == 10 * t

\* the first statement of the operation inside the lock
FirstPc(op) ==
    IF op = "add_entry" THEN "check"
    ELSE IF op \in {"update_entry", "delete_entry"} THEN "find"
    ELSE IF op = "import_entries" THEN "mutate"
    ELSE IF op = "save" THEN "save"
    ELSE IF op = "reload" THEN "load"
    ELSE "read"

\* where the operation goes after what it does before the lock
Entered(op) == IF NeedsLock(op) THEN "wait" ELSE FirstPc(op)

\* the attributes of the store, without the file
Memory(st) == [st EXCEPT !.disk = NoFile]

\* the files the store is constructed over: an empty glossary, and one that is
\* one entry below max_entries
ConcDocs ==
    {Doc(<<>>),
     Doc([i \in 1..(MaxEntries - 1) |->
            EntryToJson(Entry(IF i = 1 THEN "x" ELSE "d" \o ToString(i),
                              IF i = 1 THEN <<"a">> ELSE <<"c">>, <<"c">>, "exact",
                              200, <<>>, TRUE))])}

InitConc ==
    /\ \E document \in ConcDocs :
        \E r \in {load([Blank EXCEPT !.disk = document], 0)} :
            /\ InitStore(r.st)
            /\ last = Last("init", r.res, NoPayload, "", 0, 0)
            /\ conc = [lock |-> Lock(0, 0), stable |-> Memory(r.st), init |-> r.st]
            /\ fs = Files("json", r.st.disk)
    /\ thr \in [Threads -> {Thread(c) : c \in ConcCalls}]
    /\ nextId = 0
    /\ ops = 0
    /\ foreign = FALSE
    /\ rep = NoReplace
    /\ lev = NoLev
    /\ norm = NoNorm
    /\ appl = NoApply

\* what a step of a thread leaves alone besides the store, the threads, the lock
concOther == <<last, nextId, ops, foreign, rep, fs, lev, norm, appl>>

\* what the operation does before "with self._lock": add_entry validates its
\* payload, replace returns an empty text
StartStep(th, t) ==
    IF th.call.op = "add_entry"
    THEN Eval(_validate_payload(th.call.payload, "", FreshId(IdBase(t) + 1)),
              LAMBDA v :
                 IF v.ok THEN [th EXCEPT !.entry = v.entry, !.pc = Entered(th.call.op)]
                 ELSE [th EXCEPT !.res = v.err, !.pc = "done"])
    ELSE IF th.call.op = "replace" /\ th.call.text = <<>>
    THEN [th EXCEPT !.res = "ok", !.pc = "done"]
    ELSE [th EXCEPT !.pc = Entered(th.call.op)]

Start(t) ==
    /\ thr[t].pc = "start"
    /\ thr' = [thr EXCEPT ![t] = StartStep(thr[t], t)]
    /\ UNCHANGED <<storeVars, conc, concOther>>

\* with self._lock: the thread enters when the lock lets it
Acquire(t) ==
    /\ thr[t].pc = "wait"
    /\ CanAcquire(conc.lock, t)
    /\ conc' = [conc EXCEPT !.lock = Lock(t, IF conc.lock.owner = t
                                            THEN conc.lock.depth + 1 ELSE 1)]
    /\ thr' = [thr EXCEPT ![t].pc = FirstPc(thr[t].call.op)]
    /\ UNCHANGED <<storeVars, concOther>>

\* add_entry: self._ensure_limit(len + 1)
Check(t) ==
    /\ thr[t].pc = "check"
    /\ thr' = [thr EXCEPT ![t] =
                 IF LimitExceeded(Len(data) + 1)
                 THEN [@ EXCEPT !.res = "TERMS_LIMIT", !.pc = "release"]
                 ELSE [@ EXCEPT !.pc = "mutate"]]
    /\ UNCHANGED <<storeVars, conc, concOther>>

\* update_entry, delete_entry: idx = self._entry_index(entry_id)
Find(t) ==
    /\ thr[t].pc = "find"
    /\ \E idx \in {_entry_index(Self, thr[t].call.entry_id)} :
        thr' = [thr EXCEPT ![t] =
                  IF idx = 0 THEN [@ EXCEPT !.res = "NOT_FOUND", !.pc = "release"]
                  ELSE [@ EXCEPT !.idx = idx, !.pc = "mutate"]]
    /\ UNCHANGED <<storeVars, conc, concOther>>

\* a step that raised: the with block is left
Raises(st, th, err) == [st |-> st, th |-> [th EXCEPT !.res = err, !.pc = "release"]]
\* a step that went through to the next
Goes(st, th, pc) == [st |-> st, th |-> [th EXCEPT !.pc = pc]]

\* update_entry at idx: merge, validate, assign
MutateUpdate(st, th) ==
    Eval(_validate_payload(Merged(st.data[th.idx], th.call.payload),
                           th.call.entry_id, ""),
         LAMBDA v : IF ~v.ok THEN Raises(st, th, v.err)
                    ELSE Goes(UpdateAssign(st, th.idx, v.entry), th, "rebuild"))

\* import_entries: its loop, then its history record
MutateImport(st, th, t) ==
    Eval(ImportLoop(th.call.batch, 1, ImportStart(st, IdBase(t))),
         LAMBDA loop :
            IF loop.res # "ok"
            THEN Raises([st EXCEPT !.data = loop.data], th, loop.res)
            ELSE Goes(ImportRecord(st, loop), th, "rebuild"))

\* the statements of the operation that change self._data["entries"]
MutateStep(st, th, t) ==
    IF th.call.op = "add_entry" THEN Goes(AddAppend(st, th.entry), th, "rebuild")
    ELSE IF th.call.op = "import_entries" THEN MutateImport(st, th, t)
    ELSE IF th.idx > Len(st.data) THEN Raises(st, th, "IndexError")
    ELSE IF th.call.op = "delete_entry" THEN Goes(DeletePop(st, th.idx), th, "rebuild")
    ELSE MutateUpdate(st, th)

Mutate(t) ==
    /\ thr[t].pc = "mutate"
    /\ \E r \in {MutateStep(Self, thr[t], t)} :
        /\ Commit(r.st)
        /\ thr' = [thr EXCEPT ![t] = r.th]
    /\ UNCHANGED <<conc, concOther>>

\* self._rebuild_indexes()
Rebuild(t) ==
    /\ thr[t].pc = "rebuild"
    /\ \E st \in {_rebuild_indexes(Self)} : Commit(st)
    /\ thr' = [thr EXCEPT ![t].pc = "save"]
    /\ UNCHANGED <<conc, concOther>>

\* self.save(), which takes the lock again
SaveStep(t) ==
    /\ thr[t].pc = "save"
    /\ CanAcquire(conc.lock, t)
    /\ \E r \in {save(Self)} :
        /\ Commit(r.st)
        /\ thr' = [thr EXCEPT ![t].res = r.res, ![t].pc = "release"]
    /\ UNCHANGED <<conc, concOther>>

\* reload: load() inside the lock
Load(t) ==
    /\ thr[t].pc = "load"
    /\ \E r \in {load(Self, IdBase(t))} :
        /\ Commit(r.st)
        /\ thr' = [thr EXCEPT ![t].res = r.res, ![t].pc = "release"]
    /\ UNCHANGED <<conc, concOther>>

\* what the read-only call returns
ReadOut(st, th) ==
    IF th.call.op = "list_entries" THEN st.data
    ELSE IF th.call.op = "stats" THEN <<Len(st.data), st.fuzzy_enabled, st.history>>
    ELSE <<>>

\* replace, list_entries, stats: the body that reads the list and the indexes.
\* replace is called with the settings' defaults.
Read(t) ==
    /\ thr[t].pc = "read"
    /\ \E r \in {IF thr[t].call.op = "replace"
                 THEN replace(Self, thr[t].call.text, FALSE, TRUE, TRUE, 1)
                 ELSE [out |-> ReadOut(Self, thr[t]), ce |-> compiled_exact,
                       cr |-> compiled_regex]} :
        /\ compiled_exact' = r.ce
        /\ compiled_regex' = r.cr
        /\ thr' = [thr EXCEPT ![t] = [@ EXCEPT !.read = TRUE, !.obs = Memory(Self),
                                                !.quiet = conc.stable, !.out = r.out,
                                                !.res = "ok", !.pc = "release"]]
    /\ UNCHANGED <<data, ordered_entries, exact_index, accent_index, fuzzy_exact,
                   fuzzy_enabled, history, disk, conc, concOther>>

\* the with block is left, by its end or by an exception
Release(t) ==
    /\ thr[t].pc = "release"
    /\ conc' = IF conc.lock.owner = t
               THEN [conc EXCEPT !.lock = IF conc.lock.depth > 1
                                           THEN Lock(t, conc.lock.depth - 1)
                                           ELSE Lock(0, 0),
                                 !.stable = Memory(Self)]
               ELSE conc
    /\ thr' = [thr EXCEPT ![t].pc = "done"]
    /\ UNCHANGED <<storeVars, concOther>>

NextConc ==
    \E t \in Threads :
        \/ Start(t) \/ Acquire(t) \/ Check(t) \/ Find(t) \/ Mutate(t) \/ Rebuild(t)
        \/ SaveStep(t) \/ Load(t) \/ Read(t) \/ Release(t)

SpecConc == InitConc /\ [][NextConc]_vars

\* the positions inside "with self._lock"
InsidePcs == {"check", "find", "mutate", "rebuild", "save", "load", "read", "release"}

\* C4: every operation accesses the entry list and the indexes only while it
\* holds the store's lock, so what a replace, list_entries or stats call reads
\* is the store as the last release of the lock left it, never the store of a
\* writer that has mutated the list and not yet rebuilt the indexes.
C4_ReadersSeeNoWriterMidway ==
    /\ \A t \in Threads : thr[t].pc \in InsidePcs => conc.lock.owner = t
    /\ \A t \in Threads : thr[t].read => thr[t].obs = thr[t].quiet
    /\ \A t \in Threads :
        thr[t].pc = "read"
            => \A u \in Threads \ {t} : thr[u].pc \notin {"rebuild", "save"}

\* a reader waits for the lock while a writer has mutated the list and not yet
\* rebuilt the indexes
C4_Witness ==
    \E r, w \in Threads :
        /\ thr[r].call.op \in Readers /\ thr[r].pc = "wait"
        /\ thr[w].pc = "rebuild"
        /\ conc.lock.owner = w
        /\ data # conc.stable.data

\* one call made on its own
SeqCall(st, c, t) ==
    IF c.op = "add_entry" THEN add_entry(st, c.payload, IdBase(t))
    ELSE IF c.op = "update_entry" THEN update_entry(st, c.entry_id, c.payload, IdBase(t))
    ELSE IF c.op = "delete_entry" THEN delete_entry(st, c.entry_id, IdBase(t))
    ELSE IF c.op = "import_entries" THEN import_entries(st, c.batch, IdBase(t))
    ELSE IF c.op = "save" THEN save(st)
    ELSE IF c.op = "reload" THEN load(st, IdBase(t))
    ELSE IF c.op = "replace"
    THEN Eval(replace(st, c.text, FALSE, TRUE, TRUE, 1),
              LAMBDA r : [st |-> [st EXCEPT !.compiled_exact = r.ce,
                                            !.compiled_regex = r.cr],
                          res |-> "ok"])
    ELSE [st |-> st, res |-> "ok"]

\* the calls of the threads made one at a time, in the order given; acc is
\* [st, res]
RECURSIVE Serial(_, _, _)
Serial(order, i, acc) ==
    IF i > Len(order) THEN acc
    ELSE Serial(order, i + 1,
                Eval(SeqCall(acc.st, thr[order[i]].call, order[i]),
                     LAMBDA r : [st |-> r.st,
                                 res |-> [acc.res EXCEPT ![order[i]] = r.res]]))

Orders == {o \in [1..NThreads -> Threads] : \A i, j \in 1..NThreads : o[i] = o[j] => i = j}

AllDone == \A t \in Threads : thr[t].pc = "done"

\* C5: concurrent calls are serialized: when all have returned, the entry list,
\* the file and every call's outcome are those of the same calls made one at a
\* time in some order, and the entry count never exceeds max_entries.
C5_Serialized ==
    /\ Len(data) <= MaxEntries
    /\ AllDone =>
        \E o \in Orders :
            \E s \in {Serial(o, 1, [st |-> conc.init, res |-> [t \in Threads |-> ""]])} :
                /\ s.st.data = data
                /\ s.st.disk = disk
                /\ \A t \in Threads : s.res[t] = thr[t].res

\* two add_entry calls met one free place: one was stored, one got TERMS_LIMIT
C5_Witness ==
    /\ AllDone
    /\ \A t \in Threads : thr[t].call.op = "add_entry"
    /\ \E t, u \in Threads : thr[t].res = "ok" /\ thr[u].res = "TERMS_LIMIT"
    /\ Len(data) = MaxEntries
    /\ disk = DumpEntries(data)

(***************************************************************************)
(* Regex entries and the enable_regex flag                                 *)
(***************************************************************************)
\* the store that holds the entries of the present one that are not regex
\* entries, as it comes up from a document of them
WithoutRegex ==
    load([Blank EXCEPT !.disk =
            Doc([i \in 1..Len(SelectSeq(data, LAMBDA e : e.type # "regex")) |->
                    EntryToJson(SelectSeq(data, LAMBDA e : e.type # "regex")[i])])],
         0).st

\* what an entry's regex does to a text: every non-overlapping match, left to
\* right, gives way to dst
RegexRewritten(text, entry, case_sensitive) ==
    Subn(text, 1, Pattern(entry.src, FALSE, case_sensitive), entry, "regex",
         [out |-> <<>>, matches |-> <<>>]).out

\* C12: with enable_regex false no regex entry is applied: replace returns no
\* change record of kind "regex" and its output is the output of the same call
\* on the store with every regex entry removed; with enable_regex true every
\* active regex entry is applied to all the non-overlapping matches of its
\* pattern in the working text.
C12_RegexOnlyWhenEnabled ==
    rep.called
        => /\ ~rep.enable_regex
                => /\ \A i \in 1..Len(rep.changes) : rep.changes[i].kind # "regex"
                   /\ rep.out = replace(WithoutRegex, rep.text, rep.case_sensitive,
                                        FALSE, rep.enable_fuzzy, rep.fuzzy_dist).out
           /\ rep.enable_regex
                => \A k \in 1..Len(rep.trace) :
                      (rep.trace[k].entry.active /\ rep.trace[k].entry.type = "regex")
                          => /\ rep.trace[k].applied
                             /\ rep.trace[k].after
                                    = RegexRewritten(rep.trace[k].before,
                                                     rep.trace[k].entry,
                                                     rep.case_sensitive)

(***************************************************************************)
(* A text in which no entry occurs                                         *)
(***************************************************************************)
\* the src of the entry, a literal for an exact entry and a pattern for a regex
\* one, is found somewhere in the text under the case flag of the call
Present(entry, text, case_sensitive) ==
    HasMatch(text, Pattern(entry.src, FALSE, case_sensitive))

NoneOccurs ==
    \A k \in 1..Len(data) : ~Present(data[k], rep.text, rep.case_sensitive)

\* C13 as stated: if no entry of the store has a src that occurs in the text
\* (as a substring for an exact entry, as a pattern match for a regex entry),
\* then for every combination of case_sensitive, enable_regex, enable_fuzzy and
\* fuzzy_max_dist, replace returns the input text unchanged together with an
\* empty change list.
C13_NoOccurrenceNoChange ==
    (rep.called /\ NoneOccurs) => (rep.out = rep.text /\ rep.changes = <<>>)

\* C13, amended: the same, for the calls whose fuzzy pass is off (enable_fuzzy
\* false or fuzzy_max_dist not above 0); with the fuzzy pass on, a token within
\* fuzzy_max_dist of the folded src of an active exact entry is rewritten
\* although no src occurs in the text.
C13_NoOccurrenceNoChangeWithoutFuzzy ==
    (rep.called /\ NoneOccurs /\ ~(rep.enable_fuzzy /\ rep.fuzzy_dist > 0))
        => (rep.out = rep.text /\ rep.changes = <<>>)

C13_Witness ==
    /\ rep.called /\ NoneOccurs /\ ~(rep.enable_fuzzy /\ rep.fuzzy_dist > 0)
    /\ rep.text # <<>>
    /\ \E k \in 1..Len(rep.trace) :
          rep.trace[k].applied /\ rep.trace[k].entry.type = "exact"
    /\ \E k \in 1..Len(rep.trace) :
          rep.trace[k].applied /\ rep.trace[k].entry.type = "regex"
    /\ rep.out = rep.text /\ rep.changes = <<>>

(***************************************************************************)
(* Inactive entries                                                        *)
(***************************************************************************)
\* the text the fuzzy pass works on: what the main pass has left
FuzzyInput == IF rep.trace = <<>> THEN rep.text ELSE rep.trace[Len(rep.trace)].after

\* the form of a token the fuzzy pass compares
FoldedToken(token, case_sensitive) ==
    _strip_accents(IF case_sensitive THEN token ELSE Lower(token))

\* the token a change of the fuzzy pass replaces is within the distance of the
\* folded src of the entry
Near(change, entry) ==
    _levenshtein_limited(
        FoldedToken(SubSeq(FuzzyInput, change.start + 1, change.end),
                    rep.case_sensitive),
        _strip_accents(Lower(entry.src)), rep.fuzzy_dist) <= rep.fuzzy_dist

\* a change of the fuzzy pass rests on an active exact entry: the entry it names
\* is one, and the token is near its src
RestsOnActive(change) ==
    \E k \in 1..Len(data) :
        /\ data[k].active /\ data[k].type = "exact"
        /\ data[k].id = change.id /\ data[k].src = change.src
        /\ Near(change, data[k])

\* a change of the fuzzy pass is owed to an inactive entry: the form the pass
\* has compared the token with is the folded src of an inactive entry, and no
\* active entry accounts for the change
OwedToInactive(change) ==
    /\ ~RestsOnActive(change)
    /\ \E k \in 1..Len(data) :
          /\ ~data[k].active
          /\ data[k].id = change.id
          /\ accent_index[change.id] = _strip_accents(Lower(data[k].src))
          /\ Near(change, data[k])

\* C14: an entry with active false is retained in the entry list (here across
\* the load of the document that holds it) but never matched: for every text
\* and every flag combination the main pass does not apply it, and the fuzzy
\* pass does not take it for a candidate, so that no fuzzy change is owed to
\* the src of an inactive entry.
C14_InactiveNeverMatched ==
    /\ \A i \in 1..Len(disk.entries) :
          (disk.kind = "doc" /\ disk.entries[i].active = "False")
              => \E k \in 1..Len(data) :
                    ~data[k].active /\ data[k].id = disk.entries[i].id
    /\ \A k \in 1..Len(fuzzy_exact) : fuzzy_exact[k].active
    /\ rep.called
          => /\ \A k \in 1..Len(rep.trace) :
                    ~rep.trace[k].entry.active
                        => (~rep.trace[k].applied /\ rep.trace[k].n = 0)
             /\ \A i \in 1..Len(rep.changes) :
                    rep.changes[i].kind = "fuzzy" => ~OwedToInactive(rep.changes[i])

(***************************************************************************)
(* SpecLev: _levenshtein_limited on its own, called once with two strings  *)
(* and a bound                                                             *)
(***************************************************************************)
MaxWordLen == 3
MaxDist == 2

LevChars == {"a", "b"}

kitap == <<"k", "i", "t", "a", "p">>
kitab == <<"k", "i", "t", "a", "b">>
kitaplar == <<"k", "i", "t", "a", "p", "l", "a", "r">>

LevStrings ==
    UNION {[1..n -> LevChars] : n \in 0..MaxWordLen} \cup {kitap, kitab, kitaplar}

InitLev == Init

Measure ==
    /\ ~lev.called
    /\ \E a \in LevStrings, b \in LevStrings, max_dist \in 0..MaxDist :
          lev' = Measured(a, b, max_dist, _levenshtein_limited(a, b, max_dist))
    /\ UNCHANGED <<storeVars, last, nextId, ops, foreign, rep, fs, thr, conc, norm, appl>>

NextLev == Measure

SpecLev == InitLev /\ [][NextLev]_vars

\* the Levenshtein distance of a and b: the least number of insertions,
\* deletions and substitutions of one character that turn a into b
Levenshtein(a, b) ==
    LET D[i \in 0..Len(a), j \in 0..Len(b)] ==
            IF i = 0 THEN j
            ELSE IF j = 0 THEN i
            ELSE LET del == D[i - 1, j] + 1
                     ins == D[i, j - 1] + 1
                     sub == D[i - 1, j - 1] + (IF a[i] = b[j] THEN 0 ELSE 1)
                     m == IF del < ins THEN del ELSE ins
                 IN  IF sub < m THEN sub ELSE m
    IN  D[Len(a), Len(b)]

\* C15: for all strings a and b, the empty one included, and every
\* max_dist >= 0, _levenshtein_limited(a, b, max_dist) returns a value that is
\* at most max_dist exactly when the Levenshtein distance of a and b is at most
\* max_dist, and then it returns that distance; otherwise it returns a value
\* above max_dist. ("kitap", "kitab", 1) gives 1, ("kitap", "kitaplar", 1) 2.
C15_BoundedDistanceExact ==
    lev.called
        => /\ (lev.value <= lev.max_dist)
                <=> (Levenshtein(lev.a, lev.b) <= lev.max_dist)
           /\ (Levenshtein(lev.a, lev.b) <= lev.max_dist)
                => lev.value = Levenshtein(lev.a, lev.b)
           /\ (lev.a = kitap /\ lev.b = kitab /\ lev.max_dist = 1) => lev.value = 1
           /\ (lev.a = kitap /\ lev.b = kitaplar /\ lev.max_dist = 1) => lev.value = 2

(***************************************************************************)
(* SpecCeiling: a store whose file is replaced by a document of as many    *)
(* entries as the ceiling of the fuzzy pass, or one more, and read again   *)
(***************************************************************************)
\* TermsStore._regex_count
_regex_count(st) == Cardinality({k \in 1..Len(st.data) : st.data[k].type = "regex"})

\* TermsStore.stats, without the time of the load
stats(st) ==
    [count |-> Len(st.data), regex_count |-> _regex_count(st),
     fuzzy_enabled |-> st.fuzzy_enabled, history |-> st.history]

LargeDoc(n) ==
    Doc([i \in 1..n |->
            EntryToJson(Entry("f" \o ToString(i), <<"c">>, <<"c">>, "exact", 100,
                              <<>>, TRUE))])

LargeDocs == {LargeDoc(n) : n \in {FuzzyThreshold, FuzzyThreshold + 1}}

CeilingGlossaries == {<<R_ab>>, <<R_ab, R_bc>>}

NearTexts == [1..1 -> TextChars] \cup {<<"a", "b">>, <<"b", " ", "b">>}

InitCeiling ==
    /\ \E g \in CeilingGlossaries :
        \E r \in {load([Blank EXCEPT !.disk =
                            Doc([i \in 1..Len(g) |-> EntryToJson(g[i])])], 0)} :
            /\ InitStore(r.st)
            /\ last = Last("init", r.res, NoPayload, "", 0, 0)
    /\ nextId = 0
    /\ ops = 0
    /\ foreign = FALSE
    /\ rep = NoReplace
    /\ lev = NoLev
    /\ norm = NoNorm
    /\ appl = NoApply
    /\ fs = Files("json", disk)
    /\ thr = <<>>
    /\ conc = NoLock

\* another process replaces the file by a large document
ExternalWriteLarge ==
    /\ ops < MaxOps
    /\ \E document \in LargeDocs : disk' = document
    /\ last' = Last("external", "ok", NoPayload, "", 0, 0)
    /\ UNCHANGED <<data, ordered_entries, exact_index, accent_index, fuzzy_exact,
                   fuzzy_enabled, compiled_exact, compiled_regex, history, nextId>>
    /\ ops' = ops + 1
    /\ foreign' = TRUE
    /\ UNCHANGED auxVars

ReplaceNear == ReplaceOf(NearTexts)

NextCeiling == ExternalWriteLarge \/ Reload \/ ReplaceNear

SpecCeiling == InitCeiling /\ [][NextCeiling]_vars

\* C16: the fuzzy_enabled that stats reports is true exactly when the count of
\* entries that stats reports is at most 512, and a replace call produces
\* changes of kind "fuzzy" only when enable_fuzzy is set, fuzzy_max_dist is
\* above 0 and that count is at most 512.
C16_FuzzyUpToCeilingOnly ==
    /\ [](stats(Self).fuzzy_enabled <=> (stats(Self).count <= FuzzyThreshold))
    /\ [][(~rep.called /\ rep'.called
             /\ \E i \in 1..Len(rep'.changes) : rep'.changes[i].kind = "fuzzy")
            => /\ rep'.enable_fuzzy
               /\ rep'.fuzzy_dist > 0
               /\ stats(Self).count <= FuzzyThreshold]_vars

(***************************************************************************)
(* The winner of the fuzzy pass                                            *)
(***************************************************************************)
\* the orders in which n entries can have been inserted
InsertionOrders(n) ==
    {f \in [1..n -> 1..n] : \A i, j \in 1..n : f[i] = f[j] => i = j}

\* the store that holds the entries of the present one, inserted in the order f
Reinserted(f) ==
    load([Blank EXCEPT !.disk =
            Doc([i \in 1..Len(data) |-> EntryToJson(data[f[i]])])], 0).st

\* C17: for each token the fuzzy pass selects, among the active exact entries
\* whose folded src is within fuzzy_max_dist of the folded token, the one at
\* the smallest distance, and among those at that distance the first in the
\* canonical order (highest priority, then src ascending): the winner is a
\* function of the token and of the entries the store holds, and is the same
\* whatever the order in which they were inserted.
C17_FuzzyWinnerDeterministic ==
    (rep.called /\ IdsUnique(data) /\ rep.enable_fuzzy /\ rep.fuzzy_dist > 0)
        => \A f \in InsertionOrders(Len(data)) :
              _apply_fuzzy(Reinserted(f), FuzzyInput, rep.case_sensitive,
                           rep.fuzzy_dist)
                 = _apply_fuzzy(Self, FuzzyInput, rep.case_sensitive, rep.fuzzy_dist)

(***************************************************************************)
(* Imports (Spec)                                                          *)
(***************************************************************************)
\* the import_entries call with the batch is the step from this state to the
\* next, and r is what it returns
ImportedAs(entries, r) ==
    /\ last'.op = "import_entries"
    /\ ops' = ops + 1
    /\ data' = r.st.data /\ disk' = r.st.disk /\ history' = r.st.history
    /\ last'.res = r.res /\ last'.added = r.added /\ last'.updated = r.updated

\* an entry without its id, which an import draws afresh
IdLess(e) == [e EXCEPT !.id = ""]

\* the accent-folded lowercase src
SrcKey(src) == _strip_accents(Lower(src))

\* What the rows from the i-th on may make of a list under the rule of C18, acc
\* being [list, added, updated]: a row that collides with a stored entry
\* replaces it and counts as updated when its priority is at least the stored
\* one, and changes nothing otherwise; a row that collides with none is
\* appended and counts as added; a row that does not validate is passed over.
RECURSIVE ImportOutcomes(_, _, _)
ImportOutcomes(acc, rows, i) ==
    IF i > Len(rows) THEN {acc}
    ELSE LET v == _validate_payload(rows[i], "", "")
             hits == {j \in 1..Len(acc.list) :
                        SrcKey(acc.list[j].src) = SrcKey(v.entry.src)}
         IN  IF ~v.ok THEN ImportOutcomes(acc, rows, i + 1)
             ELSE IF hits = {}
             THEN ImportOutcomes([acc EXCEPT !.list = Append(@, IdLess(v.entry)),
                                             !.added = @ + 1], rows, i + 1)
             ELSE UNION {IF v.entry.priority >= acc.list[j].priority
                         THEN ImportOutcomes([acc EXCEPT !.list[j] = IdLess(v.entry),
                                                         !.updated = @ + 1],
                                             rows, i + 1)
                         ELSE ImportOutcomes(acc, rows, i + 1) : j \in hits}

\* C18: import_entries matches an incoming entry with a stored one by the
\* accent-folded lowercase src; on a collision the incoming entry replaces the
\* stored one if and only if its priority is greater than or equal to the
\* stored priority (a tie favours the incoming entry) and is counted as
\* updated; with a lower priority the stored entry is left untouched and
\* nothing is counted (of a call that returns its counts).
C18_ImportCollisionByPriority ==
    [][(last'.op = "import_entries" /\ last'.res = "ok")
        => \A entries \in ImportBatches :
              \A r \in {import_entries(Self, entries, nextId)} :
                 (r.res = "ok" /\ ImportedAs(entries, r))
                    => [list |-> [k \in 1..Len(data') |-> IdLess(data'[k])],
                        added |-> last'.added, updated |-> last'.updated]
                          \in ImportOutcomes(
                                 [list |-> [k \in 1..Len(data) |-> IdLess(data[k])],
                                  added |-> 0, updated |-> 0], entries, 1)]_vars

\* a second import of two rows whose priority ties with that of the entries a
\* first import has stored: both are replaced and counted as updated
C18_Witness ==
    /\ last.op = "import_entries" /\ last.res = "ok"
    /\ last.updated = 2 /\ last.added = 0
    /\ Len(data) = 2
    /\ \A k \in 1..Len(data) : data[k].priority = DefaultPriority
    /\ \E h \in 1..Len(history) :
          history[h].action = "import" /\ history[h].n1 = 2

\* after the step the indexes and the file hold the entry list
IndexedAndPersisted ==
    /\ SameEntries(ordered_entries', data')
    /\ CanonicallySorted(ordered_entries')
    /\ disk' = DumpEntries(data')

\* C19: one bad row cannot block an import: for any batch handed to
\* import_entries (one that stays under max_entries), every row that does not
\* validate is skipped and counted neither as added nor as updated, the other
\* rows are processed, indexed and persisted, and the call succeeds and returns
\* its counts.
C19_BadRowDoesNotBlockImport ==
    [][\A entries \in ImportBatches :
          \A r \in {import_entries(Self, entries, nextId)} :
             (ImportedAs(entries, r) /\ r.res # "TERMS_LIMIT")
                => /\ last'.res = "ok"
                   /\ [list |-> [k \in 1..Len(data') |-> IdLess(data'[k])],
                       added |-> last'.added, updated |-> last'.updated]
                         \in ImportOutcomes(
                                [list |-> [k \in 1..Len(data) |-> IdLess(data[k])],
                                 added |-> 0, updated |-> 0], entries, 1)
                   /\ IndexedAndPersisted]_vars

\* C20: when a batch would push the entry count above max_entries partway
\* through, only the appends beyond the ceiling fail: the entries processed
\* before the ceiling was reached stay applied and, when import_entries
\* finishes, the in-memory list that holds them is also what the rebuilt
\* indexes and the on-disk document hold.
C20_ImportUpToCeilingApplied ==
    [][\A entries \in ImportBatches :
          \A r \in {import_entries(Self, entries, nextId)} :
             (ImportedAs(entries, r) /\ r.res = "TERMS_LIMIT") => IndexedAndPersisted]_vars

-----------------------------------------------------------------------------
(* Explicit calls that fail (Spec)                                         *)

\* the fields of a payload as _validate_payload reads them
GivenSrc(payload) == IF "src" \in payload.keys THEN Strip(payload.src) ELSE <<>>
GivenDst(payload) == IF "dst" \in payload.keys THEN Strip(payload.dst) ELSE <<>>
GivenType(payload) ==
    IF "type" \in payload.keys /\ payload.type # "" THEN payload.type ELSE "exact"

\* src or dst empty or longer than 512 characters, or a type that is neither
\* exact nor regex in any letter case
InvalidFields(payload) ==
    \/ GivenSrc(payload) = <<>>
    \/ GivenDst(payload) = <<>>
    \/ Len(GivenSrc(payload)) > MaxFieldLen
    \/ Len(GivenDst(payload)) > MaxFieldLen
    \/ GivenType(payload) \notin {"exact", "regex", "EXACT", "REGEX"}

\* a regex entry whose src re.compile rejects
UncompilableRegex(payload) ==
    /\ ~InvalidFields(payload)
    /\ GivenType(payload) \in {"regex", "REGEX"}
    /\ ~Compiles(GivenSrc(payload))
    /\ ("priority" \in payload.keys => payload.priority.t = "int")

\* the code the call recorded in l owes its caller, "" when it owes none
OwedError(l) ==
    LET known == \E i \in 1..Len(data) : data[i].id = l.entry_id
        first == CHOOSE i \in 1..Len(data) :
                    /\ data[i].id = l.entry_id
                    /\ \A j \in 1..(i - 1) : data[j].id # l.entry_id
        given == IF l.op = "add_entry" THEN l.payload ELSE Merged(data[first], l.payload)
    IN  IF l.op = "delete_entry" THEN (IF known THEN "" ELSE "NOT_FOUND")
        ELSE IF l.op = "update_entry" /\ ~known THEN "NOT_FOUND"
        ELSE IF InvalidFields(given) THEN "INVALID_TERM"
        ELSE IF UncompilableRegex(given) THEN "BAD_REGEX"
        ELSE ""

\* C21: an explicit call that fails validation raises and changes nothing:
\* add_entry or update_entry with an empty or oversized src or dst or an
\* invalid type raises INVALID_TERM, with an uncompilable regex src BAD_REGEX,
\* update_entry or delete_entry with an unknown id NOT_FOUND, and the entry
\* list, the indexes, the history and the document on disk stay as they were.
C21_FailedCallRaisesAndChangesNothing ==
    [][(/\ ops' = ops + 1
        /\ last'.op \in {"add_entry", "update_entry", "delete_entry"}
        /\ OwedError(last') # "")
          => /\ last'.res = OwedError(last')
             /\ storeVars' = storeVars]_vars

(***************************************************************************)
(* SpecLoad: a store whose file another process replaces by a document     *)
(* with rows that do not validate, or by text that is not JSON, and which  *)
(* is then read again, added to and asked to replace                       *)
(***************************************************************************)
Row_d1 == EntryToJson(Entry("d1", <<"c">>, <<"a">>, "exact", 100, <<>>, TRUE))
Row_nodst == Payload({"id", "src"}, "d2", <<"b">>, <<>>, "", IntOf(0), <<>>, "")
Row_badre == Payload({"id", "src", "dst", "type"}, "d3", <<"(">>, <<"c">>, "regex",
                     IntOf(0), <<>>, "")
Row_badtype == Payload({"id", "src", "dst", "type"}, "d4", <<"s">>, <<"c">>, "fuzzy",
                       IntOf(0), <<>>, "")
Row_high == Payload({"id", "src", "dst", "priority"}, "d5", <<"b">>, <<"c">>, "",
                    BadInt, <<>>, "")
Row_type5 == Payload({"id", "src", "dst", "type"}, "d6", <<"b">>, <<"c">>, NonStrType,
                     IntOf(0), <<>>, "")

\* documents with rows that do not validate, and text that is not JSON
LoadDocs ==
    {Doc(<<Row_nodst, Row_d1, Row_badre, Row_badtype>>), Doc(<<Row_d1, Row_high>>),
     Doc(<<Row_high>>), Doc(<<Row_nodst, Row_high>>), Doc(<<Row_d1, Row_type5>>),
     Malformed}

LoadTexts == {<<"a">>, <<"c">>, <<"a", " ", "c">>}

InitLoad == InitCeiling

\* another process replaces the file
ExternalWriteLoad ==
    /\ ops < MaxOps
    /\ \E document \in LoadDocs : disk' = document
    /\ last' = Last("external", "ok", NoPayload, "", 0, 0)
    /\ UNCHANGED <<data, ordered_entries, exact_index, accent_index, fuzzy_exact,
                   fuzzy_enabled, compiled_exact, compiled_regex, history, nextId>>
    /\ ops' = ops + 1
    /\ foreign' = TRUE
    /\ UNCHANGED auxVars

ReplaceLoad == ReplaceOf(LoadTexts)

NextLoad == ExternalWriteLoad \/ Reload \/ Add \/ ReplaceLoad

SpecLoad == InitLoad /\ [][NextLoad]_vars

\* a row of the document that validates, whatever its priority
RowValid(raw) ==
    /\ ~InvalidFields(raw)
    /\ GivenType(raw) \in {"regex", "REGEX"} => Compiles(GivenSrc(raw))

\* int() accepts the priority of the row
PriorityCoercible(raw) == "priority" \in raw.keys => raw.priority.t = "int"

\* list holds the entries made of rows, in their order
LoadedFrom(list, rows) ==
    /\ Len(list) = Len(rows)
    /\ \A k \in 1..Len(rows) :
          /\ list[k].src = GivenSrc(rows[k])
          /\ list[k].dst = GivenDst(rows[k])
          /\ list[k].type = LowerType(GivenType(rows[k]))
          /\ ("id" \in rows[k].keys /\ rows[k].id # "") => list[k].id = rows[k].id

\* C22: reload of a document in which some rows no longer validate succeeds
\* for every such document (one that stays under max_entries): exactly the
\* rows that validate are loaded, in document order, each invalid row is
\* dropped, and no single row makes the reload fail or lose the other rows.
\* (A row whose only flaw is its priority may count as either.)
C22_ReloadDropsInvalidRowsOnly ==
    [][(/\ last'.op = "reload"
        /\ ops' = ops + 1
        /\ disk.kind = "doc"
        /\ Len(SelectSeq(disk.entries, RowValid)) <= MaxEntries)
          => /\ last'.res = "ok"
             /\ \/ LoadedFrom(data', SelectSeq(disk.entries, RowValid))
                \/ LoadedFrom(data', SelectSeq(disk.entries,
                                               LAMBDA raw : /\ RowValid(raw)
                                                            /\ PriorityCoercible(raw)))]_vars

\* the store has just read a file that is not JSON
EmptiedByMalformed == last.op = "reload" /\ disk.kind = "malformed"

Rounds == {HistoryMaxLen \div 4 - 1, HistoryMaxLen \div 4}

\* one round: add_entry({src: ' a ', dst: 'b'}), then delete_entry of the entry
\* added; r is the store and the count of uuid4() values drawn
Round(r) ==
    Eval(add_entry(r.st, P_a, r.nid),
         LAMBDA a :
            Eval(delete_entry(a.st, FreshId(a.nid), a.nid),
                 LAMBDA d : [st |-> d.st, nid |-> d.nid]))

\* n rounds, one after the other (the recursion halves n to stay shallow)
RECURSIVE Serve(_, _)
Serve(r, n) ==
    IF n = 0 THEN r
    ELSE IF n = 1 THEN Eval(r, LAMBDA x : Round(x))
    ELSE Eval(Serve(r, n \div 2), LAMBDA half : Serve(half, n - n \div 2))

\* the store after construction on an empty directory and k rounds
Aged(k) == Serve(Eval(load(Blank, 0), LAMBDA r : [st |-> r.st, nid |-> r.nid]), k)

InitHistory ==
    /\ \E k \in Rounds :
        \E r \in {Aged(k)} :
            /\ InitStore(r.st)
            /\ nextId = r.nid
    /\ last = Last("delete_entry", "ok", NoPayload, FreshId(nextId), 0, 0)
    /\ ops = 0
    /\ foreign = FALSE
    /\ rep = NoReplace
    /\ lev = NoLev
    /\ norm = NoNorm
    /\ appl = NoApply
    /\ fs = Files("json", disk)
    /\ thr = <<>>
    /\ conc = NoLock

NextHistory == Add \/ Update \/ Delete \/ Import \/ Save

SpecHistory == InitHistory /\ [][NextHistory]_vars

\* the old records that stay when k records are added
Kept(k) == IF Len(history) < HistoryMaxLen - k THEN Len(history) ELSE HistoryMaxLen - k

\* C24: the history holds at most 200 records, newest first: the records a
\* call adds stand at the head, and when the history is full it is the oldest
\* records that are evicted while the others keep their order.
C24_HistoryBoundedNewestFirst ==
    /\ [](Len(history) <= HistoryMaxLen)
    /\ [][history' # history
            => \E k \in 1..2 :
                 /\ Len(history') = Kept(k) + k
                 /\ SubSeq(history', k + 1, k + Kept(k)) = SubSeq(history, 1, Kept(k))
                 /\ \A i \in 1..k : history'[i].action \in
                        {"add", "update", "delete", "import", "save"}]_vars

\* an add_entry on the full history: its two records stand at the head and the
\* two oldest records, those of the first add_entry, are gone
C24_Witness ==
    /\ ops = 1
    /\ Len(history) = HistoryMaxLen
    /\ history[1].action = "save"
    /\ history[2].action = "add"
    /\ history[HistoryMaxLen].action = "delete"
    /\ history[HistoryMaxLen].id = FreshId(1)

\* the action under which an operation is recorded
ActionOf(op) ==
    IF op = "add_entry" THEN "add"
    ELSE IF op = "update_entry" THEN "update"
    ELSE IF op = "delete_entry" THEN "delete"
    ELSE "import"

\* a mutating call has returned without raising
Succeeded == last'.op \in Mutating /\ last'.res = "ok" /\ ops' = ops + 1

\* C25: each successful mutating call (add_entry, update_entry, delete_entry,
\* import_entries) appends exactly one record to the history, whose action
\* names that operation, so that a history of capacity N retains the last N
\* mutation events.
C25_OneRecordPerMutation ==
    [][Succeeded
        => /\ Len(history') = Kept(1) + 1
           /\ history'[1].action = ActionOf(last'.op)
           /\ SubSeq(history', 2, 1 + Kept(1)) = SubSeq(history, 1, Kept(1))]_vars

\* C25 as the code has it: each successful mutating call appends two records,
\* first the one whose action names the operation, then, above it, the "save"
\* record of its write-through, so that a history of capacity N retains the
\* last N records, the records of N/2 such calls.
C25_TwoRecordsPerMutation ==
    [][Succeeded
        => /\ Len(history') = Kept(2) + 2
           /\ history'[1].action = "save"
           /\ history'[1].n1 = Len(data')
           /\ history'[2].action = ActionOf(last'.op)
           /\ SubSeq(history', 3, 2 + Kept(2)) = SubSeq(history, 1, Kept(2))]_vars

\* an update_entry that succeeded on a full history
C25_Witness ==
    /\ last.op = "update_entry"
    /\ last.res = "ok"
    /\ Len(history) = HistoryMaxLen
    /\ history[1].action = "save"
    /\ history[2].action = "update"
    /\ history[3].action = "save"
    /\ history[4].action = "add"

-----------------------------------------------------------------------------
(* The order of the steps of a mutating call (SpecConc)                    *)

\* the step appends the history record of a mutation
RecordsMutation ==
    /\ history' # history
    /\ history' # <<>>
    /\ history'[1].action \in {"add", "update", "delete", "import"}

\* C26: each mutating call holds the lock across the steps validate, mutate
\* the entry list, rebuild the indexes, persist to disk, append the history
\* record, and performs them in this order: the payload is validated by the
\* thread that holds the lock, and the history record of a mutation is
\* appended only once the document holding that mutation has been persisted.
C26_ValidateMutateRebuildPersistRecord ==
    [][/\ \A t \in Threads :
            (/\ thr[t].call.op = "add_entry"
             /\ thr[t].pc = "start"
             /\ thr'[t].pc # "start") => conc.lock.owner = t
       /\ RecordsMutation
            => /\ disk' = DumpEntries(data')
               /\ ordered_entries' = SortEntries(data')]_vars

(***************************************************************************)
(* SpecNorm: normalize_text of app/textnorm.py, as _prepare_segments of    *)
(* app/stt.py calls it: on the text of a segment, then on the result again *)
(***************************************************************************)
IsDigit(c) == c \in {"0", "1", "2", "3", "4", "5", "6", "7", "8", "9"}
IsPunct(c) == c \in {",", ".", ";", ":", "!", "?"}
IsQuote(c) == c \in {"\"", "'"}

\* _WHITESPACE_RE.sub(" ", s): every run of whitespace becomes one space
RECURSIVE CollapseWhitespace(_)
CollapseWhitespace(s) ==
    IF s = <<>> THEN <<>>
    ELSE IF IsSpace(Head(s)) THEN <<" ">> \o CollapseWhitespace(LStrip(s))
    ELSE <<Head(s)>> \o CollapseWhitespace(Tail(s))

\* the match of _NUMBER_GROUP_RE at the head of s: a digit, whitespace, a dot
\* or comma, whitespace, a digit; rest is what follows the match
NumberGroupAt(s) ==
    LET sep == IF s = <<>> THEN <<>> ELSE LStrip(Tail(s))
        low == IF sep = <<>> THEN <<>> ELSE LStrip(Tail(sep))
    IN  IF /\ s # <<>> /\ IsDigit(Head(s))
           /\ sep # <<>> /\ Head(sep) \in {".", ","}
           /\ low # <<>> /\ IsDigit(Head(low))
        THEN [ok |-> TRUE, high |-> Head(s), sep |-> Head(sep), low |-> Head(low),
              rest |-> Tail(low)]
        ELSE [ok |-> FALSE, high |-> "", sep |-> "", low |-> "", rest |-> <<>>]

\* _NUMBER_GROUP_RE.sub(group 1 + group 2 + group 3, s)
RECURSIVE NumberGroups(_)
NumberGroups(s) ==
    IF s = <<>> THEN <<>>
    ELSE Eval(NumberGroupAt(s),
              LAMBDA m : IF m.ok THEN <<m.high, m.sep, m.low>> \o NumberGroups(m.rest)
                         ELSE <<Head(s)>> \o NumberGroups(Tail(s)))

\* _PUNCT_SPACING_RE.sub(group 1 + " ", s): a punctuation mark and the
\* whitespace around it become the mark and one space
RECURSIVE PunctSpacing(_)
PunctSpacing(s) ==
    IF s = <<>> THEN <<>>
    ELSE IF LStrip(s) # <<>> /\ IsPunct(Head(LStrip(s)))
    THEN <<Head(LStrip(s)), " ">> \o PunctSpacing(LStrip(Tail(LStrip(s))))
    ELSE <<Head(s)>> \o PunctSpacing(Tail(s))

\* s.replace(" " + mark, mark)
RECURSIVE ReplaceSpaceBefore(_, _)
ReplaceSpaceBefore(s, mark) ==
    IF s = <<>> THEN <<>>
    ELSE IF Len(s) >= 2 /\ s[1] = " " /\ s[2] = mark
    THEN <<mark>> \o ReplaceSpaceBefore(SubSeq(s, 3, Len(s)), mark)
    ELSE <<Head(s)>> \o ReplaceSpaceBefore(Tail(s), mark)

\* the chain of replace calls, in the order of the code
RECURSIVE ReplaceChain(_, _)
ReplaceChain(s, marks) ==
    IF marks = <<>> THEN s
    ELSE ReplaceChain(ReplaceSpaceBefore(s, Head(marks)), Tail(marks))

\* re.sub(r"\s+\)", ")", s)
RECURSIVE CloseParen(_)
CloseParen(s) ==
    IF s = <<>> THEN <<>>
    ELSE IF IsSpace(Head(s)) /\ LStrip(s) # <<>> /\ Head(LStrip(s)) = ")"
    THEN <<")">> \o CloseParen(Tail(LStrip(s)))
    ELSE <<Head(s)>> \o CloseParen(Tail(s))

\* re.sub(r"\(\s+", "(", s)
RECURSIVE OpenParen(_)
OpenParen(s) ==
    IF s = <<>> THEN <<>>
    ELSE IF Head(s) = "(" THEN <<"(">> \o OpenParen(LStrip(Tail(s)))
    ELSE <<Head(s)>> \o OpenParen(Tail(s))

\* _QUOTE_FIX_RE.sub(group 1, s): a quote loses the whitespace around it
RECURSIVE QuoteFix(_)
QuoteFix(s) ==
    IF s = <<>> THEN <<>>
    ELSE IF LStrip(s) # <<>> /\ IsQuote(Head(LStrip(s)))
    THEN <<Head(LStrip(s))>> \o QuoteFix(LStrip(Tail(LStrip(s))))
    ELSE <<Head(s)>> \o QuoteFix(Tail(s))

\* s without the marks of the set at its head
RECURSIVE DropRun(_, _)
DropRun(s, marks) ==
    IF s # <<>> /\ Head(s) \in marks THEN DropRun(Tail(s), marks) ELSE s

\* _ELLIPSIS_RE.sub("...", s): three dots or more become three
RECURSIVE Ellipsis(_)
Ellipsis(s) ==
    IF s = <<>> THEN <<>>
    ELSE IF Len(s) - Len(DropRun(s, {"."})) >= 3
    THEN <<".", ".", ".">> \o Ellipsis(DropRun(s, {"."}))
    ELSE <<Head(s)>> \o Ellipsis(Tail(s))

\* (mutant) marks are dropped pair by pair: of each two, the second stays
RECURSIVE MultiPunct_Pairwise(_)
MultiPunct_Pairwise(s) ==
    IF s = <<>> THEN <<>>
    ELSE IF Len(s) >= 2 /\ s[1] \in {"!", "?"} /\ s[2] \in {"!", "?"}
    THEN <<s[2]>> \o MultiPunct_Pairwise(SubSeq(s, 3, Len(s)))
    ELSE <<Head(s)>> \o MultiPunct_Pairwise(Tail(s))

\* _MULTI_PUNCT_RE.sub(group 1, s): of a run of two or more ! and ? the last
\* mark stays
RECURSIVE MultiPunct(_)
MultiPunct(s) ==
    IF s = <<>> THEN <<>>
    ELSE Eval(Len(s) - Len(DropRun(s, {"!", "?"})),
              LAMBDA run : IF run >= 2
                           THEN <<s[run]>> \o MultiPunct(SubSeq(s, run + 1, Len(s)))
                           ELSE <<Head(s)>> \o MultiPunct(Tail(s)))

\* normalize_text
normalize_text(text) ==
    IF Strip(text) = <<>> THEN <<>>
    ELSE Strip(
           MultiPunct(
             Ellipsis(
               QuoteFix(
                 OpenParen(
                   CloseParen(
                     ReplaceChain(
                       PunctSpacing(NumberGroups(CollapseWhitespace(Strip(text)))),
                       <<",", ".", "!", "?", ":", ";">>)))))))

MaxNormLen == 5

NormChars == {" ", "1", ".", ",", "!", "(", "\""}

\* the texts a segment may carry: every text of these characters up to the
\* length, and two numbers whose separator stands between spaces
NormTexts ==
    UNION {[1..n -> NormChars] : n \in 0..MaxNormLen}
        \cup {<<"3", " ", ".", " ", "5">>, <<"3", " ", ",", " ", "5">>}

InitNorm ==
    /\ \E r \in {load(Blank, 0)} :
        /\ InitStore(r.st)
        /\ last = Last("init", r.res, NoPayload, "", 0, 0)
    /\ nextId = 0
    /\ ops = 0
    /\ foreign = FALSE
    /\ rep = NoReplace
    /\ lev = NoLev
    /\ \E text \in NormTexts : norm = Normalizing("raw", text, <<>>, <<>>)
    /\ appl = NoApply
    /\ fs = Files("json", disk)
    /\ thr = <<>>
    /\ conc = NoLock

\* raw_text = normalize_text(segment.text or "")
NormalizeSegment ==
    /\ norm.pc = "raw"
    /\ norm' = [norm EXCEPT !.pc = "segment", !.segment = normalize_text(norm.text)]
    /\ UNCHANGED <<storeVars, last, nextId, ops, foreign, rep, fs, thr, conc, lev,
                   appl>>

\* final_text = normalize_text(combined), of a segment no term has changed
NormalizeCombined ==
    /\ norm.pc = "segment"
    /\ norm.segment # <<>>
    /\ norm' = [norm EXCEPT !.pc = "final", !.final = normalize_text(norm.segment)]
    /\ UNCHANGED <<storeVars, last, nextId, ops, foreign, rep, fs, thr, conc, lev,
                   appl>>

NextNorm == NormalizeSegment \/ NormalizeCombined

SpecNorm == InitNorm /\ [][NextNorm]_vars

\* C27: normalize_text is idempotent: normalize_text(normalize_text(x)) is
\* normalize_text(x) for every string x.
C27_NormalizeIdempotent == norm.pc = "final" => norm.final = norm.segment

\* a text the first call has changed and the second call has left alone
C27_Witness ==
    /\ norm.pc = "final"
    /\ norm.text = <<" ", "1", " ", "!", "!">>
    /\ norm.segment # norm.text
    /\ norm.final = norm.segment

\* C28: normalize_text repairs a decimal or thousands separator that stands
\* between two digits with spaces around it, returning the digits joined by
\* the separator without a space: '3 . 5' becomes '3.5', and likewise for ','.
C28_SeparatorBetweenDigitsJoined ==
    norm.pc # "raw"
        => \A sep \in {".", ","}, high \in {"1", "3"}, low \in {"1", "5"} :
              norm.text = <<high, " ", sep, " ", low>>
                  => norm.segment = <<high, sep, low>>

-----------------------------------------------------------------------------
(* The priority and the active flag of a payload (Spec)                    *)

\* the call added the entry made of its payload
AddedEntry ==
    /\ last'.res = "ok"
    /\ Len(data') = Len(data) + 1
    /\ data'[Len(data')].src = GivenSrc(last'.payload)

\* C29: validation never fails because of the priority: a payload whose
\* priority cannot be coerced to an integer ('high') and which is valid
\* otherwise is accepted with priority 100, by add_entry on a store with room
\* for it, and no import_entries call fails over the priority of a row.
C29_PriorityNeverFailsValidation ==
    [][/\ (/\ ops' = ops + 1
           /\ last'.op = "add_entry"
           /\ RowValid(last'.payload)
           /\ ~PriorityCoercible(last'.payload)
           /\ Len(data) < MaxEntries)
            => /\ AddedEntry
               /\ data'[Len(data')].priority = DefaultPriority
       /\ (ops' = ops + 1 /\ last'.op = "import_entries")
            => last'.res # "ValueError"]_vars

\* the string forms of a flag that is off, and of one that is on
OffStrings == {"'false'", "'0'", "'no'", "'off'"}
OnStrings == {"'true'", "'1'", "'yes'", "'on'"}

\* C30: the validation of the store coerces active from the common string
\* forms as well as from booleans: add_entry with active 'false', '0', 'no' or
\* 'off' yields an inactive entry, with 'true', '1', 'yes' or 'on' an active
\* one, and a boolean is kept as it is.
C30_ActiveCoercedFromStrings ==
    [][(/\ ops' = ops + 1
        /\ last'.op = "add_entry"
        /\ last'.res = "ok"
        /\ "active" \in last'.payload.keys)
          => /\ AddedEntry
             /\ last'.payload.active \in OffStrings \cup {"False"}
                    => ~data'[Len(data')].active
             /\ last'.payload.active \in OnStrings \cup {"True"}
                    => data'[Len(data')].active]_vars
----------------------------------------------------------------------------
(* apply_terms on a transcript (SpecApply) *)

\* the settings enumerated: every combination of the flags, a distance of 0 or 1
SettingsSet ==
    {Settings(p, c, r, f, d) : p \in BOOLEAN, c \in BOOLEAN, r \in BOOLEAN,
                               f \in BOOLEAN, d \in 0..1}

\* the transcripts enumerated
ApplyTexts == {t \in Texts : Len(t) <= 2} \cup {<<"a", " ", "b">>, <<"a", "b", " ", "a">>}

InitApply == InitReplace

\* one call of apply_terms on the loaded store
ApplyTerms ==
    /\ ~appl.called
    /\ \E text \in ApplyTexts, for_partial \in BOOLEAN, settings \in SettingsSet :
        \E r \in {apply_terms(Self, settings, text, for_partial)} :
            /\ compiled_exact' = r.ce
            /\ compiled_regex' = r.cr
            /\ appl' = Applied(settings, text, for_partial, r)
    /\ last' = Last("apply_terms", "ok", NoPayload, "", 0, 0)
    /\ ops' = ops + 1
    /\ UNCHANGED <<data, ordered_entries, exact_index, accent_index, fuzzy_exact,
                   fuzzy_enabled, history, disk, nextId, foreign, rep, fs, thr, conc,
                   lev, norm>>

NextApply == ApplyTerms

SpecApply == InitApply /\ [][NextApply]_vars

\* C31: apply_terms on a partial transcript (for_partial true) returns the text
\* unchanged with no changes when terms_apply_to_partials is false, and when it
\* is true it runs the exact entries only: no change of kind 'regex' or 'fuzzy'
\* is produced for a partial, whatever terms_enable_regex, terms_enable_fuzzy
\* and terms_fuzzy_max_dist are.
C31_PartialsExactOnly ==
    (appl.called /\ appl.for_partial) =>
        /\ ~appl.settings.terms_apply_to_partials =>
            (appl.out = appl.text /\ appl.changes = <<>>)
        /\ \A i \in 1..Len(appl.changes) : appl.changes[i].kind = "exact"

\* a partial rewritten by an exact entry under settings that have the regex and
\* the fuzzy pass on, in a store where the same text as a final transcript
\* comes out differently
C31_Witness ==
    /\ appl.called /\ appl.for_partial
    /\ appl.settings.terms_apply_to_partials
    /\ appl.settings.terms_enable_regex
    /\ appl.settings.terms_enable_fuzzy
    /\ appl.settings.terms_fuzzy_max_dist = 1
    /\ appl.changes # <<>>
    /\ \E e \in {ordered_entries[i] : i \in 1..Len(ordered_entries)} :
        e.type = "regex" /\ e.active /\ Occurs(e.src, appl.text)
    /\ appl.out # apply_terms(Self, appl.settings, appl.text, FALSE).out

----------------------------------------------------------------------------
(* The offsets of the change records (SpecReplace) *)

\* the change records of the k-th entry of the main pass: the records of the
\* entries before it come first in the list replace returns
ChangesOf(k) ==
    LET RECURSIVE Before(_)
        Before(i) == IF i = 0 THEN 0 ELSE rep.trace[i].n + Before(i - 1)
    IN  SubSeq(rep.changes, Before(k - 1) + 1, Before(k))

\* text after the spans of the first j records of changes were replaced, the
\* records holding offsets into text, in ascending order
RECURSIVE Spliced(_, _, _)
Spliced(text, changes, j) ==
    IF j = 0 THEN text
    ELSE Spliced(SubSeq(text, 1, changes[j].start) \o changes[j].dst
                     \o SubSeq(text, changes[j].end + 1, Len(text)),
                 changes, j - 1)

\* C32: every change record of the main pass carries start/end offsets into the
\* working text as it stands after all the replacements applied before that
\* change, those of earlier entries and those of earlier matches of the same
\* entry: the slice [start, end) of that text is the span that was replaced.
C32_OffsetsIntoMutatedText ==
    rep.called =>
        \A k \in 1..Len(rep.trace) :
            \A j \in 1..rep.trace[k].n :
                LET found == rep.trace[k].before
                    change == ChangesOf(k)[j]
                    working == Spliced(found, ChangesOf(k), j - 1)
                IN  /\ change.end <= Len(working)
                    /\ SubSeq(working, change.start + 1, change.end)
                           = SubSeq(found, change.start + 1, change.end)

----------------------------------------------------------------------------
(* Replace calls between the mutations of a glossary (SpecSession) *)

\* an update that gives the entry another src
U_src == Payload({"src"}, "", <<"b">>, <<>>, "", IntOf(0), <<>>, "")

SessionUpdates == {U_src, U_dst}
SessionAdds == {P_a, P_xb}
SessionTexts == {<<"a">>, <<"b">>, <<"A">>}
SessionGlossaries ==
    {<<R_ab>>, <<R_ab, R_ac>>, <<R_re, R_ac>>, <<R_ab, R_bc>>, <<R_dup, R_ab>>}
SessionArgs ==
    {<<text, case_sensitive, enable_regex, fuzzy[1], fuzzy[2]>> :
        text \in SessionTexts, case_sensitive \in BOOLEAN, enable_regex \in BOOLEAN,
        fuzzy \in {<<FALSE, 0>>, <<TRUE, 1>>}}

InitSession ==
    /\ \E g \in SessionGlossaries :
        \E r \in {load([Blank EXCEPT
                            !.disk = Doc([i \in 1..Len(g) |-> EntryToJson(g[i])])],
                        0)} :
            /\ InitStore(r.st)
            /\ last = Last("init", r.res, NoPayload, "", 0, 0)
    /\ nextId = 0
    /\ ops = 0
    /\ foreign = FALSE
    /\ rep = NoReplace
    /\ lev = NoLev
    /\ norm = NoNorm
    /\ appl = NoApply
    /\ fs = Files("json", disk)
    /\ thr = <<>>
    /\ conc = NoLock

\* a replace call on the store as the calls before it left it
SessionReplace ==
    /\ ops < MaxOps
    /\ \E a \in SessionArgs :
        \E r \in {replace(Self, a[1], a[2], a[3], a[4], a[5])} :
            /\ compiled_exact' = r.ce
            /\ compiled_regex' = r.cr
            /\ rep' = Replaced(a[1], a[2], a[3], a[4], a[5], r)
    /\ last' = Last("replace", "ok", NoPayload, "", 0, 0)
    /\ ops' = ops + 1
    /\ UNCHANGED <<data, ordered_entries, exact_index, accent_index, fuzzy_exact,
                   fuzzy_enabled, history, disk, nextId, foreign, fs, thr, conc, lev,
                   norm, appl>>

SessionUpdate ==
    /\ ops < MaxOps
    /\ \E entry_id \in KnownIds, payload \in SessionUpdates :
        \E r \in {update_entry(Self, entry_id, payload, nextId)} :
            /\ Commit(r.st)
            /\ last' = Last("update_entry", r.res, payload, entry_id, 0, 0)
            /\ nextId' = r.nid
    /\ ops' = ops + 1
    /\ UNCHANGED <<foreign, auxVars>>

SessionAdd ==
    /\ ops < MaxOps
    /\ \E payload \in SessionAdds :
        \E r \in {add_entry(Self, payload, nextId)} :
            /\ Commit(r.st)
            /\ last' = Last("add_entry", r.res, payload, "", 0, 0)
            /\ nextId' = r.nid
    /\ ops' = ops + 1
    /\ UNCHANGED <<foreign, auxVars>>

NextSession ==
    SessionReplace \/ SessionUpdate \/ SessionAdd \/ Delete \/ Import \/ Reload

SpecSession == InitSession /\ [][NextSession]_vars

\* the store with the indexes _rebuild_indexes derives from its entry list and
\* with nothing compiled
Fresh(st) ==
    _rebuild_indexes([st EXCEPT !.compiled_exact = {}, !.compiled_regex = {}])

\* the indexes of the store are those of its entry list
Indexed(st) ==
    \E fresh \in {Fresh(st)} :
        \A f \in {"ordered_entries", "exact_index", "accent_index", "fuzzy_exact",
                  "fuzzy_enabled"} : st[f] = fresh[f]

\* what a replace call returns to its caller
Returned(r) == <<r.out, r.changes>>

\* C33: a replace call that starts after a successful add_entry, update_entry,
\* delete_entry, import_entries or reload has returned uses exactly the
\* post-mutation entries: no index and no compiled pattern cached under
\* (id, case_sensitive) from before the mutation is used, so after update_entry
\* changes an entry's src the old src no longer fires and the new one does.
C33_ReplaceUsesPostMutationEntries ==
    [][/\ (/\ last'.op \in Mutating \cup {"reload"}
           /\ last'.res = "ok"
           /\ ops' = ops + 1)
          => /\ compiled_exact' = {} /\ compiled_regex' = {}
             /\ Indexed(Self')
       /\ (last'.op = "replace" /\ ops' = ops + 1 /\ Indexed(Self))
          => Returned(rep')
                = Returned(replace(Fresh(Self), rep'.text, rep'.case_sensitive,
                                   rep'.enable_regex, rep'.enable_fuzzy,
                                   rep'.fuzzy_dist))]_vars

\* the text 'a' was rewritten by an entry, update_entry has then given that
\* entry the src 'b': the same call now leaves 'a' alone and rewrites 'b'
C33_Witness ==
    /\ last.op = "update_entry" /\ last.res = "ok" /\ last.payload = U_src
    /\ rep.called /\ rep.text = <<"a">> /\ ~rep.enable_fuzzy
    /\ Len(rep.changes) = 1
    /\ rep.changes[1].id = last.entry_id
    /\ rep.changes[1].src = <<"a">>
    /\ replace(Self, <<"a">>, rep.case_sensitive, rep.enable_regex, FALSE, 0).changes
          = <<>>
    /\ \E r \in {replace(Self, <<"b">>, rep.case_sensitive, rep.enable_regex, FALSE, 0)} :
          /\ Len(r.changes) = 1
          /\ r.changes[1].id = last.entry_id
          /\ r.changes[1].src = <<"b">>

----------------------------------------------------------------------------
(* The calls end and leave the lock free (SpecConcFair) *)

\* the statements thread t may execute
StepOf(t) ==
    \/ Start(t) \/ Acquire(t) \/ Check(t) \/ Find(t) \/ Mutate(t) \/ Rebuild(t)
    \/ SaveStep(t) \/ Load(t) \/ Read(t) \/ Release(t)

NextConcFair == \E t \in Threads : StepOf(t)

\* thread t has a statement to execute, and the lock lets it: StepOf(t) is
\* enabled
CanStep(t) ==
    /\ thr[t].pc # "done"
    /\ thr[t].pc \in {"wait", "save"} => CanAcquire(conc.lock, t)

\* the interpreter runs a thread when one can run: while some thread has an
\* executable statement, a statement is executed (weak fairness of
\* NextConcFair; which thread runs is left open)
SpecConcFair ==
    /\ InitConc /\ [][NextConcFair]_vars
    /\ []<>(\A t \in Threads : ~CanStep(t)) \/ []<><<thr' # thr>>_vars

\* C34: every store operation runs to completion and releases the lock, whether
\* it returns or raises: the save() nested in add/update/delete/import takes
\* the re-entrant lock again without deadlocking, and after any operation (one
\* that raised TERMS_LIMIT or a validation error included) the lock is free, so
\* that a waiting caller eventually proceeds.
C34_CallsEndAndFreeTheLock ==
    /\ <>AllDone
    /\ \A t \in Threads : (thr[t].pc = "wait") ~> (conc.lock.owner = t)
    /\ [](\A t \in Threads : thr[t].pc = "done" => conc.lock.owner # t)
    /\ [](AllDone => conc.lock = Lock(0, 0))

\* all calls have ended and the lock is free: one raised TERMS_LIMIT inside the
\* lock, one went through its nested save()
C34_Witness ==
    /\ thr # <<>>
    /\ AllDone
    /\ conc.lock = Lock(0, 0)
    /\ \E t \in Threads, u \in Threads :
        /\ thr[t].res = "TERMS_LIMIT"
        /\ thr[u].call.op \in Mutating /\ thr[u].res = "ok"

----------------------------------------------------------------------------
(* What update_entry and delete_entry leave alone (Spec) *)

\* list without its idx-th element
Without(list, idx) == SubSeq(list, 1, idx - 1) \o SubSeq(list, idx + 1, Len(list))

\* C35: update_entry(id, payload) and delete_entry(id) affect only the targeted
\* entry: update keeps the entry's id (an 'id' field in the payload is ignored)
\* and its position in the entry list and leaves every other entry unchanged;
\* delete removes exactly one entry and leaves all the others unchanged and in
\* the same relative order.
C35_UpdateDeleteTouchOneEntry ==
    [][(last'.op \in {"update_entry", "delete_entry"} /\ last'.res = "ok"
            /\ ops' = ops + 1)
        => \E idx \in {_entry_index(Self, last'.entry_id)} :
              /\ idx \in 1..Len(data)
              /\ last'.op = "update_entry"
                    => /\ Len(data') = Len(data)
                       /\ data'[idx].id = data[idx].id
                       /\ \A j \in 1..Len(data) : j # idx => data'[j] = data[j]
              /\ last'.op = "delete_entry"
                    => data' = Without(data, idx)]_vars

\* update_entry with a payload that carries another id has changed the first of
\* two entries: it is still the first, under its own id, and the second is as
\* it was added
C35_Witness ==
    /\ last.op = "update_entry" /\ last.res = "ok" /\ last.payload = U_prio
    /\ Len(data) = 2
    /\ data[1].id = last.entry_id /\ data[1].id # U_prio.id
    /\ data[1].priority = U_prio.priority.n
    /\ data[2].priority # U_prio.priority.n
    /\ ops = 3

----------------------------------------------------------------------------
(* The counts and the keys of an import (Spec) *)

\* how many rows of the batch validate
ValidRows(entries) ==
    Cardinality({i \in 1..Len(entries) : _validate_payload(entries[i], "", "").ok})

\* how many of the entries the list held have been replaced
ReplacedInPlace(before, after) ==
    Cardinality({j \in 1..Len(before) : after[j] # before[j]})

\* C36: the counts returned by a successful import_entries are accurate: the
\* entry list grows by exactly 'added' entries, exactly 'updated' in-place
\* replacements were performed, and added + updated is at most the number of
\* incoming rows that validated, batches with several rows of the same
\* normalized src included.
C36_ImportCountsAccurate ==
    [][(last'.op = "import_entries" /\ last'.res = "ok" /\ ops' = ops + 1)
        => /\ Len(data') = Len(data) + last'.added
           /\ ReplacedInPlace(data, data') <= last'.updated
           /\ \A entries \in ImportBatches :
                 \A r \in {import_entries(Self, entries, nextId)} :
                    (r.res = "ok" /\ ImportedAs(entries, r))
                       => /\ last'.added + last'.updated <= ValidRows(entries)
                          /\ \E o \in ImportOutcomes(
                                   [list |-> [k \in 1..Len(data) |-> IdLess(data[k])],
                                    added |-> 0, updated |-> 0], entries, 1) :
                                /\ o.added = last'.added
                                /\ o.updated = last'.updated
                                /\ Len(o.list) = Len(data')]_vars

\* an import into the empty store of two rows whose src fold to the same key
\* ('s' with and without cedilla): the first is added, the second replaces it
C36_Witness ==
    /\ last.op = "import_entries" /\ last.res = "ok"
    /\ ops = 1
    /\ last.added = 1 /\ last.updated = 1
    /\ Len(data) = 1 /\ data[1].src = <<"s">>

\* no two entries of the list share the accent-folded lowercase src
NoSharedKey(list) ==
    \A i \in 1..Len(list) : \A j \in 1..Len(list) :
        i # j => SrcKey(list[i].src) # SrcKey(list[j].src)

\* C37: import_entries preserves de-duplication by normalized src: if before
\* the call no two stored entries share the same accent-folded lowercase src,
\* then after the call none do either, whatever the batch contains (duplicate
\* keys inside the batch itself included).
C37_ImportKeepsKeysDistinct ==
    [][(last'.op = "import_entries" /\ ops' = ops + 1 /\ NoSharedKey(data))
        => NoSharedKey(data')]_vars

\* the store held 'a' at priority 100; a batch with 'A' at 50 and 'a' at 200 has
\* been imported: one entry, that of the last row
C37_Witness ==
    /\ last.op = "import_entries" /\ last.res = "ok"
    /\ ops = 2
    /\ last.added = 0 /\ last.updated = 1
    /\ Len(data) = 1 /\ data[1].id = P_xa.id /\ data[1].src = <<"a">>
    /\ \E h \in 1..Len(history) : history[h].action = "add"

----------------------------------------------------------------------------
(* The fuzzy pass and the output of the main pass (SpecReplace) *)

\* the working text the main pass of the call left
MainOut == IF rep.trace = <<>> THEN rep.text ELSE rep.trace[Len(rep.trace)].after

\* every word of the input is the src of an exact entry that the main pass
\* applied and that rewrote it
WordsAllHandled ==
    /\ Tokens(rep.text, 1, <<>>) # <<>>
    /\ \A t \in {Tokens(rep.text, 1, <<>>)[i] :
                    i \in 1..Len(Tokens(rep.text, 1, <<>>))} :
          \E k \in 1..Len(rep.trace) :
              /\ rep.trace[k].applied /\ rep.trace[k].n > 0
              /\ rep.trace[k].entry.type = "exact"
              /\ FoldedToken(rep.trace[k].entry.src, rep.case_sensitive)
                    = FoldedToken(SubSeq(rep.text, t.start, t.stop),
                                  rep.case_sensitive)

\* C38: within one replace call the fuzzy pass leaves the main pass's output
\* alone: text inserted as the dst of an exact or regex replacement is not
\* rewritten again by the fuzzy pass, so with fuzzy enabled (fuzzy_max_dist 1)
\* the result for a text whose words were all handled by exact entries is
\* what it is with fuzzy disabled.
C38_FuzzyLeavesMainOutputAlone ==
    (rep.called /\ rep.enable_fuzzy /\ rep.fuzzy_dist = 1 /\ WordsAllHandled)
        => /\ rep.out = MainOut
           /\ \A i \in 1..Len(rep.changes) : rep.changes[i].kind # "fuzzy"

----------------------------------------------------------------------------
(* replace reads the store and does not write it (SpecSession) *)

\* the arguments of the call that ended last, with each text of the set and
\* either case flag in place of its own
Again(r) ==
    {<<text, case_sensitive, r.enable_regex, r.enable_fuzzy, r.fuzzy_dist>> :
        text \in SessionTexts \cup {r.text}, case_sensitive \in BOOLEAN}

\* C39: replace is read-only with respect to the store: for every text and every
\* flag combination it leaves the entry list, ordered_entries, exact_index,
\* accent_index, fuzzy_candidates, fuzzy_enabled, the history and the on-disk
\* document unchanged (only the compiled-pattern cache may grow), and two
\* replace calls with the same arguments and no mutation in between return the
\* same result.
C39_ReplaceReadsOnly ==
    [][(last'.op = "replace" /\ ops' = ops + 1)
        => /\ UNCHANGED <<data, ordered_entries, exact_index, accent_index,
                          fuzzy_exact, fuzzy_enabled, history, disk>>
           /\ compiled_exact \subseteq compiled_exact'
           /\ compiled_regex \subseteq compiled_regex'
           /\ \A a \in Again(rep') :
                 Returned(replace(Self', a[1], a[2], a[3], a[4], a[5]))
                    = Returned(replace(Self, a[1], a[2], a[3], a[4], a[5]))
           /\ (last.op = "replace"
                 /\ <<rep.text, rep.case_sensitive, rep.enable_regex,
                      rep.enable_fuzzy, rep.fuzzy_dist>>
                    = <<rep'.text, rep'.case_sensitive, rep'.enable_regex,
                        rep'.enable_fuzzy, rep'.fuzzy_dist>>)
                => Returned(rep') = Returned(rep)]_vars

\* the third of three replace calls on a store no call has mutated: the exact
\* cache holds patterns of either case flag, the regex cache holds one, and
\* the call rewrote its text
C39_Witness ==
    /\ last.op = "replace" /\ ops = 3
    /\ history = <<>>
    /\ rep.changes # <<>>
    /\ \E c \in compiled_exact : c.cs /\ \E d \in compiled_exact : ~d.cs
    /\ compiled_regex # {}

====
